---- MODULE Spec2Model ----
(***************************************************************************)
(* McGill course visualizer: the closure resolver                          *)
(* (getRelevantCoursesForProgram), the graph builder                       *)
(* (generateGraphElements / addRequirementGraphElements /                  *)
(* displayGraphForCourses), the program-change handler and the view        *)
(* handlers (handleNetworkClick, handleCategoryFilterChange,               *)
(* handleSearch), modelled from the front-end script.  Course codes, node  *)
(* IDs and edge IDs are the strings the script builds.                     *)
(***************************************************************************)
EXTENDS Integers, Sequences, FiniteSets, TLC

VARIABLES
  coursesData,        \* the loaded course array (read-only after load)
  programsData,       \* the loaded program array (read-only after load)
  programSelect,      \* value of the program <select>
  allNodesDataSet,    \* rendered node collection, in insertion order
  allEdgesDataSet,    \* rendered edge collection, in insertion order
  lastIdCounter,      \* ghost: idCounter at the end of the latest build
  firstBuild,         \* ghost: program name -> ID sets of its first build
  history,            \* ghost: the program values selected so far
  programCourseCodes, \* closure resolver: the argument
  queue,              \* closure resolver: the BFS queue
  head,               \* closure resolver: queue pointer (0-based)
  relevantCodes,      \* closure resolver: the insertion-ordered Set
  pc,                 \* closure "idle" | "loop" | "done"; build "input" | "built"
  displayList,        \* graph builder: the display list last built
  selectedForHighlighting_NodeIds, \* the Set of click-selected node IDs
  categoryFilterSelect,            \* value of the category <select>
  nodeStyle,          \* node ID -> the render fields written by DataSet.update
  sidebar,            \* the course sidebar: shown or hidden, and its content
  focusRequest,       \* the node last handed to network.focus / selectNodes
  outcome,            \* how the latest handler ended: "ok", "alert" or an error
  lastEvent,          \* ghost: the latest event and the kind of the one before
  clickedSince,       \* ghost: IDs clicked since the selection was last cleared
  handled,            \* ghost: clicks, filter changes and searches handled so far
  coursesResponse,    \* how fetch(COURSES_JSON_PATH) settled, or "pending"
  programsResponse,   \* how fetch(PROGRAMS_JSON_PATH) settled, or "pending"
  errorShown,         \* graphContainer holds the "Error loading data" message
  network             \* the vis.Network shell exists, its handlers registered

vars == <<coursesData, programsData, programSelect, allNodesDataSet,
          allEdgesDataSet, lastIdCounter, firstBuild, history,
          programCourseCodes, queue, head, relevantCodes, pc, displayList,
          selectedForHighlighting_NodeIds, categoryFilterSelect, nodeStyle,
          sidebar, focusRequest, outcome, lastEvent, clickedSince, handled,
          coursesResponse, programsResponse, errorShown, network>>

loadVars == <<coursesResponse, programsResponse, errorShown, network>>

uiVars == <<programSelect, allNodesDataSet, allEdgesDataSet, lastIdCounter,
            firstBuild, history>>

bfsVars == <<programCourseCodes, queue, head, relevantCodes, pc>>

viewVars == <<selectedForHighlighting_NodeIds, categoryFilterSelect, nodeStyle,
              sidebar, focusRequest, outcome, lastEvent, clickedSince, handled>>

-----------------------------------------------------------------------------
(* Bounds *)

MaxSeedLen == 2      \* longest seed list drawn
MaxDisplayLen == 3   \* longest display list drawn
MaxBuilds == 3       \* program changes explored in one behaviour
MaxEvents == 3       \* clicks, filter changes and searches in one behaviour

-----------------------------------------------------------------------------
(* Sequence helpers *)

ToSet(s) == {s[i] : i \in DOMAIN s}

NoDup(s) == \A i, j \in DOMAIN s : i # j => s[i] # s[j]

SeqsUpTo(S, n) == UNION {[1..k -> S] : k \in 0..n}

Perms(s) ==
  {t \in [DOMAIN s -> ToSet(s)] :
     \E f \in [DOMAIN s -> DOMAIN s] :
        /\ \A i, j \in DOMAIN s : i # j => f[i] # f[j]
        /\ \A i \in DOMAIN s : t[i] = s[f[i]]}

RECURSIVE Reverse(_)
Reverse(s) == IF s = <<>> THEN <<>> ELSE Append(Reverse(Tail(s)), Head(s))

-----------------------------------------------------------------------------
(* Input data: requirement nodes, course records, program records *)

CourseRef(c) == [type |-> "COURSE", code |-> c]
LogicalOperator(op, conds) ==
  [type |-> "LOGICAL_OPERATOR", operator |-> op, conditions |-> conds]
Textual(t) == [type |-> "TEXTUAL", text |-> t]
NOfList(n, conds) == [type |-> "N_OF_LIST", count |-> n, conditions |-> conds]

CourseRecord(c, pre, co) ==
  [code |-> c, title |-> "Topics " \o c,
   prerequisites_parsed |-> pre, corequisites_parsed |-> co]

ProgramRecord(name, courses) == [program |-> name, courses |-> courses]

cA == "COMP-202"
cB == "COMP-250"
cC == "ECSE-200"
cZ == "FAKE-999"     \* never in the catalog

CatalogCodeSet == {cA, cB, cC}
RefCodes == CatalogCodeSet \cup {cZ}

Leaves == {CourseRef(cB), CourseRef(cC), CourseRef(cZ), Textual("permission")}

Groups ==
  {LogicalOperator(op, <<x, y>>) : op \in {"AND", "OR"}, x \in Leaves, y \in Leaves}
  \cup {NOfList(n, <<x, y>>) : n \in {1, 2}, x \in Leaves, y \in Leaves}

GroupSample ==
  {g \in Groups : g.conditions[1] \in {CourseRef(cB), Textual("permission")}}

PrereqChoicesA ==
  {<<>>, <<CourseRef(cA)>>}   \* the second one requires itself
  \cup {<<x>> : x \in Leaves \cup GroupSample}
  \cup { <<CourseRef(cB), CourseRef(cC)>>,
         <<CourseRef(cB), CourseRef(cB)>>,
         <<LogicalOperator("AND", <<CourseRef(cB)>>),
           LogicalOperator("AND", <<CourseRef(cC)>>)>>,
         <<LogicalOperator("and",
             <<CourseRef(cB),
               LogicalOperator("OR", <<CourseRef(cC), Textual("permission")>>)>>)>>,
         <<NOfList(2, <<CourseRef(cB), CourseRef(cC)>>),
           NOfList(1, <<CourseRef(cC)>>)>>,
         <<NOfList(1, <<LogicalOperator("AND", <<CourseRef(cB), CourseRef(cC)>>)>>)>>,
         <<LogicalOperator("OR",
             <<NOfList(2, <<CourseRef(cC), CourseRef(cZ)>>), CourseRef(cB)>>)>>,
         <<NOfList(0, <<CourseRef(cB)>>)>>,
         <<Textual("permission"), Textual("")>> }

CoreqChoicesA ==
  {<<>>, <<CourseRef(cB)>>,
   <<LogicalOperator("OR", <<CourseRef(cB), CourseRef(cC)>>)>>}

PrereqChoicesB ==
  {<<>>, <<CourseRef(cC)>>, <<CourseRef(cA)>>,
   <<LogicalOperator("AND", <<CourseRef(cC), CourseRef(cA)>>)>>,
   <<NOfList(1, <<CourseRef(cC)>>)>>}

PrereqChoicesC ==
  {<<>>, <<CourseRef(cA)>>}

Catalogs ==
  {<<CourseRecord(cA, pa, ca), CourseRecord(cB, pb, <<>>), CourseRecord(cC, pcc, <<>>)>> :
     pa \in PrereqChoicesA, ca \in CoreqChoicesA,
     pb \in PrereqChoicesB, pcc \in PrereqChoicesC}

SeedLists == SeqsUpTo(RefCodes, MaxSeedLen)

DisplayLists == SeqsUpTo(RefCodes, MaxDisplayLen)

-----------------------------------------------------------------------------
(* CourseCatalog: data.find((c) => c.code === code) *)

HasCourseIn(data, code) == \E i \in DOMAIN data : data[i].code = code

FindCourseIn(data, code) ==
  data[CHOOSE i \in DOMAIN data :
          /\ data[i].code = code
          /\ \A j \in DOMAIN data : data[j].code = code => i <= j]

HasCourse(code) == HasCourseIn(coursesData, code)

FindCourse(code) == FindCourseIn(coursesData, code)

CatalogCodes == {coursesData[i].code : i \in DOMAIN coursesData}

-----------------------------------------------------------------------------
(* ClosureResolver: getRelevantCoursesForProgram *)

\* Set.prototype.add on an insertion-ordered Set
SetAdd(s, x) == IF x \in ToSet(s) THEN s ELSE Append(s, x)

RECURSIVE SetAddAll(_, _)
SetAddAll(s, xs) ==
  IF xs = <<>> THEN s ELSE SetAddAll(SetAdd(s, Head(xs)), Tail(xs))

\* programCourseCodes.filter((code) => coursesData.find(...))
FilterInCatalog(data, codes) ==
  LET InData(c) == HasCourseIn(data, c) IN SelectSeq(codes, InData)

\* the COURSE branch without the relevantCodes.has test
PushCourse_nohas(data, req, st) ==
  IF HasCourseIn(data, req.code)
  THEN [relevantCodes |-> SetAdd(st.relevantCodes, req.code),
        queue |-> Append(st.queue, req.code)]
  ELSE st

\* the COURSE branch without the catalog test
PushCourse_nofind(data, req, st) ==
  IF req.code \notin ToSet(st.relevantCodes)
  THEN [relevantCodes |-> SetAdd(st.relevantCodes, req.code),
        queue |-> Append(st.queue, req.code)]
  ELSE st

\* lines 562-569: the COURSE branch of addDependencies
PushCourse(data, req, st) ==
  IF HasCourseIn(data, req.code) /\ req.code \notin ToSet(st.relevantCodes)
  THEN [relevantCodes |-> SetAdd(st.relevantCodes, req.code),
        queue |-> Append(st.queue, req.code)]
  ELSE st

\* a test that also descends into N_OF_LIST nodes
IsTraversed_nOfList(req) == req.type \in {"LOGICAL_OPERATOR", "N_OF_LIST"}

\* line 570: the node kinds whose conditions are scanned
IsTraversed(req) == req.type = "LOGICAL_OPERATOR"

RECURSIVE addDependencies(_, _, _)
addDependencies(data, requirements, st) ==
  IF requirements = <<>> THEN st
  ELSE LET req == Head(requirements)
           st1 == IF req.type = "COURSE" THEN PushCourse(data, req, st)
                  ELSE IF IsTraversed(req)
                  THEN addDependencies(data, req.conditions, st)
                  ELSE st
       IN addDependencies(data, Tail(requirements), st1)

\* the queue and the result before the loop, the seeds left out of the result
BfsInit_noseed(data, codes) ==
  [queue |-> FilterInCatalog(data, codes), head |-> 0, relevantCodes |-> <<>>]

\* lines 544-553: the queue and the result before the loop
BfsInit(data, codes) ==
  LET q == FilterInCatalog(data, codes)
  IN [queue |-> q, head |-> 0, relevantCodes |-> SetAddAll(<<>>, q)]

\* the pointer after one iteration, advanced twice
NextHead_twice(h) == h + 2

\* line 555: head++
NextHead(h) == h + 1

\* lines 555-577: one iteration of the while loop
BfsIter(data, b) ==
  LET currentCode == b.queue[b.head + 1]
      st0 == [relevantCodes |-> b.relevantCodes, queue |-> b.queue]
      st2 == IF ~HasCourseIn(data, currentCode) THEN st0
             ELSE LET course == FindCourseIn(data, currentCode)
                  IN addDependencies(data, course.corequisites_parsed,
                        addDependencies(data, course.prerequisites_parsed, st0))
  IN [queue |-> st2.queue, head |-> NextHead(b.head),
      relevantCodes |-> st2.relevantCodes]

RECURSIVE BfsRun(_, _)
BfsRun(data, b) ==
  IF b.head < Len(b.queue) THEN BfsRun(data, BfsIter(data, b)) ELSE b

\* the returned array, Array.from(relevantCodes), over a given course array
RelevantIn(data, codes) == BfsRun(data, BfsInit(data, codes)).relevantCodes

getRelevantCoursesForProgram(codes) == RelevantIn(coursesData, codes)

-----------------------------------------------------------------------------
(* GraphBuilder: generateGraphElements, addRequirementGraphElements *)

DIM_PREREQ_COLOR == "rgba(41, 128, 185, 0.15)"
DIM_COREQ_COLOR == "rgba(39, 174, 96, 0.15)"
HIGHLIGHT_PREREQ_COLOR == "#2980b9"
HIGHLIGHT_COREQ_COLOR == "#27ae60"

\* courseCodeWithSpace.replace(' ', '-') on the codes of the lists
ReplaceSpace(courseCodeWithSpace) ==
  CASE courseCodeWithSpace = "NSCI 201" -> "NSCI-201"
    [] courseCodeWithSpace = "COMP 202" -> "COMP-202"
    [] courseCodeWithSpace = "COMP 204" -> "COMP-204"
    [] courseCodeWithSpace = "COMP 250" -> "COMP-250"
    [] courseCodeWithSpace = "COMP 206" -> "COMP-206"
    [] courseCodeWithSpace = "COMP 251" -> "COMP-251"
    [] OTHER -> courseCodeWithSpace

\* the calls of addCogSciCourse in program order, for the required course, the
\* Core CompSci list and the head of the complementary CompSci list
CogSciRegistrations ==
  << <<"NSCI 201", "CogSci Program: Required">>,
     <<"COMP 202", "CogSci Program: Core CompSci">>,
     <<"COMP 204", "CogSci Program: Core CompSci">>,
     <<"COMP 250", "CogSci Program: Core CompSci">>,
     <<"COMP 206", "CogSci Program: Comp CompSci">>,
     <<"COMP 250", "CogSci Program: Comp CompSci">>,
     <<"COMP 251", "CogSci Program: Comp CompSci">> >>

\* a registration that overwrites the category a code already has
addCogSciCourse_overwrite(map, courseCodeWithSpace, categoryName) ==
  LET courseCodeWithHyphen == ReplaceSpace(courseCodeWithSpace)
  IN [c \in DOMAIN map \cup {courseCodeWithHyphen} |->
        IF c = courseCodeWithHyphen THEN categoryName ELSE map[c]]

\* lines 487-492: the code is entered only when the table does not hold it
addCogSciCourse(map, courseCodeWithSpace, categoryName) ==
  LET courseCodeWithHyphen == ReplaceSpace(courseCodeWithSpace)
  IN IF courseCodeWithHyphen \in DOMAIN map THEN map
     ELSE [c \in DOMAIN map \cup {courseCodeWithHyphen} |->
             IF c = courseCodeWithHyphen THEN categoryName ELSE map[c]]

RECURSIVE RegisterAll(_, _)
RegisterAll(map, registrations) ==
  IF registrations = <<>> THEN map
  ELSE RegisterAll(addCogSciCourse(map, Head(registrations)[1],
                                   Head(registrations)[2]),
                   Tail(registrations))

\* the static course -> category table, as built by addCogSciCourse
cognitiveScienceProgramMap ==
  RegisterAll([c \in {} |-> ""], CogSciRegistrations)

\* courseCode.split("-")[0]
Prefix(courseCode) ==
  CASE courseCode = "COMP-202" -> "COMP"
    [] courseCode = "COMP-250" -> "COMP"
    [] courseCode = "ECSE-200" -> "ECSE"
    [] courseCode = "FAKE-999" -> "FAKE"
    [] OTHER -> courseCode

extractGroup(courseCode) ==
  IF courseCode \in DOMAIN cognitiveScienceProgramMap
  THEN cognitiveScienceProgramMap[courseCode]
  ELSE Prefix(courseCode)

\* operator names used as they are written in the data
toUpperCase_asWritten(str) == str

\* String.prototype.toUpperCase on the operator names of the data
toUpperCase(str) ==
  CASE str = "and" -> "AND"
    [] str = "or" -> "OR"
    [] str = "comp-250" -> "COMP-250"
    [] OTHER -> str

\* line 584: const idCounter = { logic: 0, textual: 0, nOfList: 0 }
IdCounterInit == [logic |-> 0, textual |-> 0, nOfList |-> 0]

HasNodeId(nodesArray, id) == \E i \in DOMAIN nodesArray : nodesArray[i].id = id

HasEdgeId(edgesArray, id) == \E i \in DOMAIN edgesArray : edgesArray[i].id = id

\* a push that leaves textual requirements without a node
PushNode_noTextual(acc, node) ==
  IF node.group = "TextualNode" \/ HasNodeId(acc.nodes, node.id) THEN acc
  ELSE [acc EXCEPT !.nodes = Append(@, node)]

\* nodesArray.push(node) without the some() test
PushNode_unguarded(acc, node) == [acc EXCEPT !.nodes = Append(@, node)]

\* if (!nodesArray.some((n) => n.id === node.id)) nodesArray.push(node)
PushNode(acc, node) ==
  IF HasNodeId(acc.nodes, node.id) THEN acc
  ELSE [acc EXCEPT !.nodes = Append(@, node)]

\* edgesArray.push(edge) without the some() test
PushEdge_unguarded(acc, edge) == [acc EXCEPT !.edges = Append(@, edge)]

\* if (!edgesArray.some((e) => e.id === edge.id)) edgesArray.push(edge)
PushEdge(acc, edge) ==
  IF HasEdgeId(acc.edges, edge.id) THEN acc
  ELSE [acc EXCEPT !.edges = Append(@, edge)]

\* an edge object whose id leaves the relation out
EdgeObject_idWithoutType(from, to, type, dashes) ==
  [id |-> from \o "_" \o to,
   from |-> from, to |-> to,
   color |-> IF type = "prereq" THEN DIM_PREREQ_COLOR ELSE DIM_COREQ_COLOR,
   dashes |-> dashes, baseColorType |-> type]

\* the edge object literal, id = `${from}_${to}_${type}`
EdgeObject(from, to, type, dashes) ==
  [id |-> from \o "_" \o to \o "_" \o type,
   from |-> from, to |-> to,
   color |-> IF type = "prereq" THEN DIM_PREREQ_COLOR ELSE DIM_COREQ_COLOR,
   dashes |-> dashes, baseColorType |-> type]

\* lines 593-598: the node pushed for a display course
DisplayCourseNode(course) ==
  [id |-> course.code, label |-> course.code,
   title |-> course.code \o ": " \o course.title,
   group |-> extractGroup(course.code), details |-> <<>>]

\* lines 656-662: the node pushed for a required course
RequiredCourseNode(courseData) ==
  [id |-> courseData.code, label |-> courseData.code,
   title |-> courseData.title,
   group |-> extractGroup(courseData.code), details |-> <<courseData>>]

\* a test that also normalises a count below one
IsOneOfList_atMostOne(requirement) == requirement.count <= 1

\* line 765: requirement.count === 1
IsOneOfList(requirement) == requirement.count = 1

\* a counter that gives every node of a kind the ordinal 1
Increment_stuck(counter) == 1

\* idCounter.logic++, idCounter.textual++, idCounter.nOfList++
Increment(counter) == counter + 1

RECURSIVE addRequirementGraphElements(_, _, _, _, _)
RECURSIVE AddConditions(_, _, _, _, _)

\* requirement.conditions.forEach((c) => addRequirementGraphElements(c, ...))
AddConditions(conditions, targetNodeId, type, acc, originalCourseCode) ==
  IF conditions = <<>> THEN acc
  ELSE AddConditions(Tail(conditions), targetNodeId, type,
         addRequirementGraphElements(Head(conditions), targetNodeId, type, acc,
                                     originalCourseCode),
         originalCourseCode)

addRequirementGraphElements(requirement, targetNodeId, type, acc, originalCourseCode) ==
  IF requirement.type = "COURSE" THEN
    IF HasCourse(requirement.code)
    THEN PushEdge(PushNode(acc, RequiredCourseNode(FindCourse(requirement.code))),
                  EdgeObject(requirement.code, targetNodeId, type, type = "coreq"))
    ELSE acc
  ELSE IF requirement.type = "LOGICAL_OPERATOR" THEN
    LET n == Increment(acc.idCounter.logic)
        operator == toUpperCase(requirement.operator)
        logicNodeId == "logic_" \o originalCourseCode \o "_" \o type \o "_"
                          \o operator \o "_" \o ToString(n)
        node == [id |-> logicNodeId, label |-> operator,
                 title |-> operator \o " condition for " \o originalCourseCode,
                 group |-> IF operator = "AND" THEN "AndNode" ELSE "OrNode",
                 details |-> <<>>]
        acc1 == PushEdge(PushNode([acc EXCEPT !.idCounter.logic = n], node),
                         EdgeObject(logicNodeId, targetNodeId, type, FALSE))
    IN AddConditions(requirement.conditions, logicNodeId, type, acc1,
                     originalCourseCode)
  ELSE IF requirement.type = "TEXTUAL" THEN
    LET n == Increment(acc.idCounter.textual)
        textualNodeId == "textual_" \o originalCourseCode \o "_" \o type \o "_"
                            \o ToString(n)
        nodeLabel == IF requirement.text = "" THEN "Textual requirement"
                     ELSE requirement.text
        node == [id |-> textualNodeId, label |-> nodeLabel,
                 title |-> "Textual: " \o nodeLabel \o " (for "
                              \o originalCourseCode \o ")",
                 group |-> "TextualNode", details |-> <<>>]
    IN PushEdge(PushNode([acc EXCEPT !.idCounter.textual = n], node),
                EdgeObject(textualNodeId, targetNodeId, type, FALSE))
  ELSE IF requirement.type = "N_OF_LIST" THEN
    IF IsOneOfList(requirement) THEN
      LET n == Increment(acc.idCounter.logic)
          orNodeId == "logic_" \o originalCourseCode \o "_" \o type
                         \o "_OR_N_OF_1_" \o ToString(n)
          node == [id |-> orNodeId, label |-> "OR",
                   title |-> "OR condition (1 of list) for " \o originalCourseCode,
                   group |-> "OrNode", details |-> <<requirement>>]
          acc1 == PushEdge(PushNode([acc EXCEPT !.idCounter.logic = n], node),
                           EdgeObject(orNodeId, targetNodeId, type, FALSE))
      IN AddConditions(requirement.conditions, orNodeId, type, acc1,
                       originalCourseCode)
    ELSE
      LET n == Increment(acc.idCounter.nOfList)
          nOfListNodeId == "n_of_list_" \o originalCourseCode \o "_" \o type \o "_"
                              \o ToString(requirement.count) \o "_" \o ToString(n)
          nodeLabel == ToString(requirement.count) \o " of:"
          node == [id |-> nOfListNodeId, label |-> nodeLabel,
                   title |-> nodeLabel \o " (for " \o originalCourseCode \o ")",
                   group |-> "NOfListNode", details |-> <<requirement>>]
          acc1 == PushEdge(PushNode([acc EXCEPT !.idCounter.nOfList = n], node),
                           EdgeObject(nOfListNodeId, targetNodeId, type, FALSE))
      IN AddConditions(requirement.conditions, nOfListNodeId, type, acc1,
                       originalCourseCode)
  ELSE acc

\* a body that draws a bare node for a code the catalog does not resolve
AddDisplayCourse_bare(acc, courseCode) ==
  IF ~HasCourse(courseCode)
  THEN [acc EXCEPT !.nodes =
          Append(@, [id |-> courseCode, label |-> courseCode, title |-> courseCode,
                     group |-> extractGroup(courseCode), details |-> <<>>])]
  ELSE LET course == FindCourse(courseCode)
           acc1 == [acc EXCEPT !.nodes = Append(@, DisplayCourseNode(course))]
           acc2 == AddConditions(course.prerequisites_parsed, course.code,
                                 "prereq", acc1, course.code)
       IN AddConditions(course.corequisites_parsed, course.code, "coreq", acc2,
                        course.code)

\* lines 589-630: the body of displaySet.forEach for one course code
AddDisplayCourse(acc, courseCode) ==
  IF ~HasCourse(courseCode) THEN acc
  ELSE LET course == FindCourse(courseCode)
           acc1 == [acc EXCEPT !.nodes = Append(@, DisplayCourseNode(course))]
           acc2 == AddConditions(course.prerequisites_parsed, course.code,
                                 "prereq", acc1, course.code)
       IN AddConditions(course.corequisites_parsed, course.code, "coreq", acc2,
                        course.code)

RECURSIVE ForEachDisplayCourse(_, _)
ForEachDisplayCourse(acc, codes) ==
  IF codes = <<>> THEN acc
  ELSE ForEachDisplayCourse(AddDisplayCourse(acc, Head(codes)), Tail(codes))

\* a build that expands every course the display list reaches
generateGraphElements_closure(courseCodesToDisplay) ==
  ForEachDisplayCourse([nodes |-> <<>>, edges |-> <<>>, idCounter |-> IdCounterInit],
                       getRelevantCoursesForProgram(courseCodesToDisplay))

\* a build whose counters carry on from the previous build
generateGraphElements_carried(courseCodesToDisplay) ==
  ForEachDisplayCourse([nodes |-> <<>>, edges |-> <<>>, idCounter |-> lastIdCounter],
                       SetAddAll(<<>>, courseCodesToDisplay))

\* returns nodesArray and edgesArray (and, for the ghost, the final counters)
generateGraphElements(courseCodesToDisplay) ==
  ForEachDisplayCourse([nodes |-> <<>>, edges |-> <<>>, idCounter |-> IdCounterInit],
                       SetAddAll(<<>>, courseCodesToDisplay))

\* the node list passed on as it is
DedupNodesById_none(nodes) == nodes

\* a map that is overwritten by every later node of the same ID
RECURSIVE DedupNodesById_lastWins(_)
DedupNodesById_lastWins(nodes) ==
  IF nodes = <<>> THEN <<>>
  ELSE LET front == DedupNodesById_lastWins(SubSeq(nodes, 1, Len(nodes) - 1))
           last == nodes[Len(nodes)]
       IN IF HasNodeId(front, last.id)
          THEN [i \in DOMAIN front |->
                  IF front[i].id = last.id THEN last ELSE front[i]]
          ELSE Append(front, last)

\* lines 1304-1312: uniqueNodesById, first occurrence of an ID wins
RECURSIVE DedupNodesById(_)
DedupNodesById(nodes) ==
  IF nodes = <<>> THEN <<>>
  ELSE LET front == DedupNodesById(SubSeq(nodes, 1, Len(nodes) - 1))
           last == nodes[Len(nodes)]
       IN IF HasNodeId(front, last.id) THEN front ELSE Append(front, last)

\* a call that adds the new build to what the DataSets already hold
displayGraphForCourses_noClear(courseCodesToDisplay) ==
  IF Len(courseCodesToDisplay) = 0
  THEN [nodes |-> <<>>, edges |-> <<>>, idCounter |-> lastIdCounter]
  ELSE LET g == generateGraphElements(courseCodesToDisplay)
       IN [nodes |-> DedupNodesById(allNodesDataSet \o g.nodes),
           edges |-> allEdgesDataSet \o g.edges,
           idCounter |-> g.idCounter]

\* a call that returns on an empty list before it clears the DataSets
displayGraphForCourses_earlyReturn(courseCodesToDisplay) ==
  IF Len(courseCodesToDisplay) = 0
  THEN [nodes |-> allNodesDataSet, edges |-> allEdgesDataSet,
        idCounter |-> lastIdCounter]
  ELSE LET g == generateGraphElements(courseCodesToDisplay)
       IN [nodes |-> DedupNodesById(g.nodes), edges |-> g.edges,
           idCounter |-> g.idCounter]

\* lines 1290-1318: the contents of the two DataSets after the call
displayGraphForCourses(courseCodesToDisplay) ==
  IF Len(courseCodesToDisplay) = 0
  THEN [nodes |-> <<>>, edges |-> <<>>, idCounter |-> lastIdCounter]
  ELSE LET g == generateGraphElements(courseCodesToDisplay)
       IN [nodes |-> DedupNodesById(g.nodes), edges |-> g.edges,
           idCounter |-> g.idCounter]

NodeIds(nodes) == {nodes[i].id : i \in DOMAIN nodes}

EdgeIds(edges) == {edges[i].id : i \in DOMAIN edges}

-----------------------------------------------------------------------------
(* View state: the render fields, the sidebar, the state at load *)

VERY_DIMMED_OPACITY == 5      \* 0.05, opacities are written in hundredths
FULL_OPACITY == 100           \* 1
VERY_DIMMED_TEXT_COLOR == "#d9d9d9"
DEFAULT_NODE_TEXT_COLOR == "#333333"

\* the font colour of options.groups[group], else the default text colour
NormalFontColor(group) ==
  CASE group \in {"AndNode", "OrNode", "NOfListNode"} -> "#34495e"
    [] group = "TextualNode" -> "#555555"
    [] OTHER -> DEFAULT_NODE_TEXT_COLOR

\* opacity 1 with the normal/group font colour, stroke and border
NormalStyle(node) ==
  [opacity |-> FULL_OPACITY, fontColor |-> NormalFontColor(node.group),
   fontStrokeWidth |-> 1, borderWidth |-> 1]

\* the four assignments of a dimmed branch
VeryDimmedStyle ==
  [opacity |-> VERY_DIMMED_OPACITY, fontColor |-> VERY_DIMMED_TEXT_COLOR,
   fontStrokeWidth |-> 0, borderWidth |-> 0]

\* no node carries render fields: the DataSet was cleared and refilled
NoStyle == [id \in {} |-> VeryDimmedStyle]

\* an item without an opacity field is drawn at the default, full opacity
RenderedOpacity(id) ==
  IF id \in DOMAIN nodeStyle THEN nodeStyle[id].opacity ELSE FULL_OPACITY

\* a sidebar that is shown again with the content it had
updateSidebar_showOnly(course) == [sidebar EXCEPT !.visible = TRUE]

updateSidebar(course) == [visible |-> TRUE, course |-> course.code]

hideSidebar(sb) == [sb EXCEPT !.visible = FALSE]

\* both fetches answered and initApp went through to the network shell
Loaded ==
  /\ coursesResponse = "ok"
  /\ programsResponse = "ok"
  /\ errorShown = FALSE
  /\ network = TRUE

\* lines 121-127 and the page as loaded: nothing selected, filter "all"
ViewInit ==
  /\ selectedForHighlighting_NodeIds = {}
  /\ categoryFilterSelect = "all"
  /\ nodeStyle = NoStyle
  /\ sidebar = [visible |-> FALSE, course |-> ""]
  /\ focusRequest = ""
  /\ outcome = "ok"
  /\ lastEvent = [kind |-> "load", arg |-> "", prev |-> "load"]
  /\ clickedSince = {}
  /\ handled = 0

-----------------------------------------------------------------------------
(* The graph builder applied to one display list *)

DisplayGraph ==
  /\ pc = "input"
  /\ LET g == displayGraphForCourses(displayList)
     IN /\ allNodesDataSet' = g.nodes
        /\ allEdgesDataSet' = g.edges
        /\ lastIdCounter' = g.idCounter
  /\ pc' = "built"
  /\ UNCHANGED <<loadVars, coursesData, programsData, programSelect, firstBuild, history,
                 programCourseCodes, queue, head, relevantCodes, displayList,
                 viewVars>>

InitBuild ==
  /\ coursesData \in Catalogs
  /\ programsData = <<>>
  /\ programSelect = ""
  /\ allNodesDataSet = <<>>
  /\ allEdgesDataSet = <<>>
  /\ lastIdCounter = IdCounterInit
  /\ firstBuild = <<>>
  /\ history = <<>>
  /\ programCourseCodes = <<>>
  /\ queue = <<>>
  /\ head = 0
  /\ relevantCodes = <<>>
  /\ pc = "input"
  /\ displayList \in DisplayLists
  /\ ViewInit
  /\ Loaded

NextBuild == DisplayGraph

SpecBuild == InitBuild /\ [][NextBuild]_vars

-----------------------------------------------------------------------------
(* Program change: handleProgramChange *)

PrereqChoicesUI ==
  {<<>>, <<CourseRef(cB)>>,
   <<LogicalOperator("AND", <<CourseRef(cB), CourseRef(cC)>>)>>,
   <<NOfList(1, <<CourseRef(cB), CourseRef(cZ)>>)>>,
   <<NOfList(2, <<CourseRef(cB), CourseRef(cC)>>), Textual("permission")>>}

UICatalogs ==
  {<<CourseRecord(cA, pa, <<>>), CourseRecord(cB, pb, <<>>), CourseRecord(cC, pcc, <<>>)>> :
     pa \in PrereqChoicesUI,
     pb \in {<<>>, <<CourseRef(cC)>>,
             <<LogicalOperator("AND", <<CourseRef(cC), CourseRef(cA)>>)>>},
     pcc \in {<<>>, <<CourseRef(cA)>>}}

\* "Draft" is a program record that has no courses array
UIPrograms ==
  {<<ProgramRecord("Honours", l1), ProgramRecord("Minor", l2),
     [program |-> "Draft"]>> :
     l1 \in SeedLists, l2 \in {<<cB>>, <<cC, cA>>}}

ProgramNames == {programsData[i].program : i \in DOMAIN programsData}

\* the values the program <select> can take
ProgramOptions == {"", "all"} \cup ProgramNames

HasProgram(name) == \E i \in DOMAIN programsData : programsData[i].program = name

\* programsData.find((p) => p.program === name)
FindProgram(name) ==
  programsData[CHOOSE i \in DOMAIN programsData :
                  /\ programsData[i].program = name
                  /\ \A j \in DOMAIN programsData :
                        programsData[j].program = name => i <= j]

\* coursesData.map((c) => c.code)
AllCourseCodes == [i \in DOMAIN coursesData |-> coursesData[i].code]

RECURSIVE ListedCourses(_)
\* the course lists of the program records, one after the other
ListedCourses(programs) ==
  IF programs = <<>> THEN <<>>
  ELSE (IF "courses" \in DOMAIN Head(programs) THEN Head(programs).courses
        ELSE <<>>) \o ListedCourses(Tail(programs))

\* "all" taken as the courses the programs list
CoursesToDisplay_listedOnly(selectedProgramName) ==
  IF selectedProgramName = "" THEN <<>>
  ELSE IF selectedProgramName = "all" THEN ListedCourses(programsData)
  ELSE IF /\ HasProgram(selectedProgramName)
          /\ "courses" \in DOMAIN FindProgram(selectedProgramName)
  THEN FindProgram(selectedProgramName).courses
  ELSE <<>>

\* lines 1325-1349: the list handed to displayGraphForCourses
CoursesToDisplay(selectedProgramName) ==
  IF selectedProgramName = "" THEN <<>>
  ELSE IF selectedProgramName = "all" THEN AllCourseCodes
  ELSE IF /\ HasProgram(selectedProgramName)
          /\ "courses" \in DOMAIN FindProgram(selectedProgramName)
  THEN FindProgram(selectedProgramName).courses
  ELSE <<>>

\* a program change that also puts the category filter back to "all"
handleProgramChange_resetFilter(selectedProgramName) ==
  /\ pc = "ready"
  /\ Len(history) < MaxBuilds
  /\ programSelect' = selectedProgramName
  /\ LET g == displayGraphForCourses(CoursesToDisplay(selectedProgramName))
     IN /\ allNodesDataSet' = g.nodes
        /\ allEdgesDataSet' = g.edges
        /\ lastIdCounter' = g.idCounter
        /\ firstBuild' =
             IF selectedProgramName \in DOMAIN firstBuild THEN firstBuild
             ELSE firstBuild @@
                    (selectedProgramName :>
                       [nodes |-> NodeIds(g.nodes), edges |-> EdgeIds(g.edges)])
  /\ history' = Append(history, selectedProgramName)
  /\ displayList' = CoursesToDisplay(selectedProgramName)
  /\ sidebar' = hideSidebar(sidebar)
  /\ nodeStyle' = NoStyle
  /\ outcome' = "ok"
  /\ lastEvent' = [kind |-> "program", arg |-> "", prev |-> lastEvent.kind]
  /\ categoryFilterSelect' = "all"
  /\ UNCHANGED <<loadVars, coursesData, programsData, bfsVars,
                 selectedForHighlighting_NodeIds,
                 focusRequest, clickedSince, handled>>

handleProgramChange(selectedProgramName) ==
  /\ pc = "ready"
  /\ Len(history) < MaxBuilds
  /\ programSelect' = selectedProgramName
  /\ LET g == displayGraphForCourses(CoursesToDisplay(selectedProgramName))
     IN /\ allNodesDataSet' = g.nodes
        /\ allEdgesDataSet' = g.edges
        /\ lastIdCounter' = g.idCounter
        /\ firstBuild' =
             IF selectedProgramName \in DOMAIN firstBuild THEN firstBuild
             ELSE firstBuild @@
                    (selectedProgramName :>
                       [nodes |-> NodeIds(g.nodes), edges |-> EdgeIds(g.edges)])
  /\ history' = Append(history, selectedProgramName)
  /\ displayList' = CoursesToDisplay(selectedProgramName)
  /\ sidebar' = hideSidebar(sidebar)
  /\ nodeStyle' = NoStyle
  /\ outcome' = "ok"
  /\ lastEvent' = [kind |-> "program", arg |-> "", prev |-> lastEvent.kind]
  /\ UNCHANGED <<loadVars, coursesData, programsData, bfsVars,
                 selectedForHighlighting_NodeIds, categoryFilterSelect,
                 focusRequest, clickedSince, handled>>

Init ==
  /\ coursesData \in UICatalogs
  /\ programsData \in UIPrograms
  /\ programSelect = ""
  /\ allNodesDataSet = <<>>
  /\ allEdgesDataSet = <<>>
  /\ lastIdCounter = IdCounterInit
  /\ firstBuild = <<>>
  /\ history = <<>>
  /\ programCourseCodes = <<>>
  /\ queue = <<>>
  /\ head = 0
  /\ relevantCodes = <<>>
  /\ pc = "ready"
  /\ displayList = <<>>
  /\ ViewInit
  /\ Loaded

Next == \E name \in ProgramOptions : handleProgramChange(name)

Spec == Init /\ [][Next]_vars

-----------------------------------------------------------------------------
(* Clicks, category filter and search: handleNetworkClick,                 *)
(* handleCategoryFilterChange, handleSearch                                *)

NodeById(id) ==
  allNodesDataSet[CHOOSE i \in DOMAIN allNodesDataSet : allNodesDataSet[i].id = id]

\* only the far ends of the edges that leave the node
getConnectedNodes_targets(nodeId) ==
  IF nodeId \notin NodeIds(allNodesDataSet) THEN {}
  ELSE {allEdgesDataSet[j].to :
          j \in {k \in DOMAIN allEdgesDataSet : allEdgesDataSet[k].from = nodeId}}

\* network.getConnectedNodes(nodeId): the other end of every edge of the node,
\* nothing for an ID the network does not hold
getConnectedNodes(nodeId) ==
  IF nodeId \notin NodeIds(allNodesDataSet) THEN {}
  ELSE {allEdgesDataSet[j].to :
          j \in {k \in DOMAIN allEdgesDataSet : allEdgesDataSet[k].from = nodeId}}
       \cup {allEdgesDataSet[j].from :
          j \in {k \in DOMAIN allEdgesDataSet : allEdgesDataSet[k].to = nodeId}}

\* only the edges that leave the node
getConnectedEdges_outgoing(nodeId) ==
  IF nodeId \notin NodeIds(allNodesDataSet) THEN {}
  ELSE {allEdgesDataSet[j].id :
          j \in {k \in DOMAIN allEdgesDataSet : allEdgesDataSet[k].from = nodeId}}

\* network.getConnectedEdges(nodeId)
getConnectedEdges(nodeId) ==
  IF nodeId \notin NodeIds(allNodesDataSet) THEN {}
  ELSE {allEdgesDataSet[j].id :
          j \in {k \in DOMAIN allEdgesDataSet :
                   \/ allEdgesDataSet[k].from = nodeId
                   \/ allEdgesDataSet[k].to = nodeId}}

\* a selection that holds the latest click only
AddSelected_latestOnly(selected, clickedNodeId) == {clickedNodeId}

\* line 1130: selectedForHighlighting_NodeIds.add(clickedNodeId)
AddSelected(selected, clickedNodeId) == selected \cup {clickedNodeId}

\* lines 1137-1152
nodesToFullyHighlight(selected) ==
  selected \cup UNION {getConnectedNodes(id) : id \in selected}

edgesToFullyHighlight_Ids(selected) ==
  UNION {getConnectedEdges(id) : id \in selected}

\* a test without the "all" case
IsNodeInSelectedCategory_exact(selectedCategory, node) ==
  node.group = selectedCategory

\* lines 259 and 1195
IsNodeInSelectedCategory(selectedCategory, node) ==
  selectedCategory = "all" \/ node.group = selectedCategory

\* a rule that lets the click highlight win over the category filter
ClickNodeStyle_highlightFirst(node, selectedCategory, selected) ==
  IF selected # {} /\ node.id \in nodesToFullyHighlight(selected)
  THEN NormalStyle(node)
  ELSE IF ~IsNodeInSelectedCategory(selectedCategory, node) THEN VeryDimmedStyle
  ELSE IF selected # {} THEN VeryDimmedStyle
  ELSE NormalStyle(node)

\* lines 1194-1223
ClickNodeStyle(node, selectedCategory, selected) ==
  IF ~IsNodeInSelectedCategory(selectedCategory, node) THEN VeryDimmedStyle
  ELSE IF selected # {}
  THEN IF node.id \in nodesToFullyHighlight(selected)
       THEN NormalStyle(node)
       ELSE VeryDimmedStyle
  ELSE NormalStyle(node)

\* lines 1236-1254
ClickEdgeColor(edge, selected) ==
  IF selected # {} /\ edge.id \in edgesToFullyHighlight_Ids(selected)
  THEN IF edge.baseColorType = "prereq"
       THEN HIGHLIGHT_PREREQ_COLOR ELSE HIGHLIGHT_COREQ_COLOR
  ELSE IF edge.baseColorType = "prereq" THEN DIM_PREREQ_COLOR ELSE DIM_COREQ_COLOR

\* clickedNodeId is params.nodes[0], or "" for a click that hit no node
handleNetworkClick(clickedNodeId) ==
  /\ pc = "ready"
  /\ handled < MaxEvents
  /\ LET selected == IF clickedNodeId # ""
                     THEN AddSelected(selectedForHighlighting_NodeIds, clickedNodeId)
                     ELSE {}
     IN /\ selectedForHighlighting_NodeIds' = selected
        /\ sidebar' = IF clickedNodeId # "" /\ HasCourse(clickedNodeId)
                      THEN updateSidebar(FindCourse(clickedNodeId))
                      ELSE sidebar
        /\ nodeStyle' =
             IF allNodesDataSet = <<>> THEN nodeStyle
             ELSE [id \in NodeIds(allNodesDataSet) |->
                     ClickNodeStyle(NodeById(id), categoryFilterSelect, selected)]
        /\ allEdgesDataSet' =
             [j \in DOMAIN allEdgesDataSet |->
                [allEdgesDataSet[j] EXCEPT
                   !.color = ClickEdgeColor(allEdgesDataSet[j], selected)]]
  /\ outcome' = "ok"
  /\ lastEvent' = [kind |-> IF clickedNodeId # "" THEN "click" ELSE "background",
                   arg |-> clickedNodeId,
                   prev |-> lastEvent.kind]
  /\ handled' = handled + 1
  /\ clickedSince' = IF clickedNodeId # "" THEN clickedSince \cup {clickedNodeId}
                     ELSE {}
  /\ UNCHANGED <<loadVars, coursesData, programsData, programSelect, allNodesDataSet,
                 lastIdCounter, firstBuild, history, bfsVars, displayList,
                 categoryFilterSelect, focusRequest>>

NULL_EDGE_COLOR == "null"                       \* color: null
VERY_DIMMED_EDGE_COLOR == "#848484 opacity 0.05" \* { color, opacity } of line 309

\* a filter change that leaves every node at its normal style
CategoryNodeStyle_allNormal(node, selectedCategory) == NormalStyle(node)

\* lines 258-271
CategoryNodeStyle(node, selectedCategory) ==
  IF IsNodeInSelectedCategory(selectedCategory, node) THEN NormalStyle(node)
  ELSE VeryDimmedStyle

\* lines 285-292: the nodes whose stored opacity is not VERY_DIMMED_OPACITY
visibleNodeIds(style) ==
  {id \in NodeIds(allNodesDataSet) :
     id \notin DOMAIN style \/ style[id].opacity # VERY_DIMMED_OPACITY}

\* lines 295-318
CategoryEdgeColor(edge, visible) ==
  IF edge.from \in visible /\ edge.to \in visible THEN NULL_EDGE_COLOR
  ELSE VERY_DIMMED_EDGE_COLOR

\* The handler reads the new value of the <select>.  Line 308 reads
\* network.options.edges.color for an edge with a dimmed end: where the
\* network object exposes no options.edges the read raises a TypeError and the
\* edge update is not reached.  Line 325 calls clearSidebar, which the script
\* does not define, so a run that gets there ends in a ReferenceError.
handleCategoryFilterChange(selectedCategory) ==
  /\ pc = "ready"
  /\ handled < MaxEvents
  /\ categoryFilterSelect' = selectedCategory
  /\ selectedForHighlighting_NodeIds' = {}
  /\ clickedSince' = {}
  /\ LET style == IF allNodesDataSet = <<>> THEN nodeStyle
                  ELSE [id \in NodeIds(allNodesDataSet) |->
                          CategoryNodeStyle(NodeById(id), selectedCategory)]
         visible == visibleNodeIds(style)
         someDimmedEnd == \E j \in DOMAIN allEdgesDataSet :
                             \/ allEdgesDataSet[j].from \notin visible
                             \/ allEdgesDataSet[j].to \notin visible
     IN /\ nodeStyle' = style
        /\ \/ /\ allEdgesDataSet' =
                   [j \in DOMAIN allEdgesDataSet |->
                      [allEdgesDataSet[j] EXCEPT
                         !.color = CategoryEdgeColor(allEdgesDataSet[j], visible)]]
              /\ outcome' = "ReferenceError"
           \/ /\ someDimmedEnd
              /\ allEdgesDataSet' = allEdgesDataSet
              /\ outcome' = "TypeError"
  /\ lastEvent' = [kind |-> "category", arg |-> "",
                   prev |-> lastEvent.kind]
  /\ handled' = handled + 1
  /\ UNCHANGED <<loadVars, coursesData, programsData, programSelect, allNodesDataSet,
                 lastIdCounter, firstBuild, history, bfsVars, displayList,
                 sidebar, focusRequest>>

\* String.prototype.trim on the search inputs
trim(str) ==
  CASE str = " FAKE-999 " -> "FAKE-999"
    [] OTHER -> str

\* a search that asks the network to focus the term before it looks it up
handleSearch_focusFirst(input) ==
  /\ pc = "ready"
  /\ handled < MaxEvents
  /\ LET searchTerm == toUpperCase(trim(input))
     IN IF searchTerm = "" THEN UNCHANGED <<focusRequest, sidebar, outcome>>
        ELSE /\ focusRequest' = searchTerm
             /\ sidebar' = IF HasCourse(searchTerm)
                           THEN updateSidebar(FindCourse(searchTerm)) ELSE sidebar
             /\ outcome' = IF HasNodeId(allNodesDataSet, searchTerm)
                           THEN "ok" ELSE "alert"
  /\ lastEvent' = [kind |-> "search", arg |-> input,
                   prev |-> lastEvent.kind]
  /\ handled' = handled + 1
  /\ UNCHANGED <<loadVars, coursesData, programsData, uiVars, bfsVars, displayList,
                 selectedForHighlighting_NodeIds, categoryFilterSelect, nodeStyle,
                 clickedSince>>

handleSearch(input) ==
  /\ pc = "ready"
  /\ handled < MaxEvents
  /\ LET searchTerm == toUpperCase(trim(input))
     IN IF searchTerm = "" THEN UNCHANGED <<focusRequest, sidebar, outcome>>
        ELSE IF HasNodeId(allNodesDataSet, searchTerm)
        THEN /\ focusRequest' = searchTerm
             /\ sidebar' = IF HasCourse(searchTerm)
                           THEN updateSidebar(FindCourse(searchTerm)) ELSE sidebar
             /\ outcome' = "ok"
        ELSE /\ outcome' = "alert"
             /\ UNCHANGED <<focusRequest, sidebar>>
  /\ lastEvent' = [kind |-> "search", arg |-> input,
                   prev |-> lastEvent.kind]
  /\ handled' = handled + 1
  /\ UNCHANGED <<loadVars, coursesData, programsData, uiVars, bfsVars, displayList,
                 selectedForHighlighting_NodeIds, categoryFilterSelect, nodeStyle,
                 clickedSince>>

\* lines 152-158: the categories of the catalog, the options after "all"
allUniqueCategories == {extractGroup(coursesData[i].code) : i \in DOMAIN coursesData}

CategoryOptions == {"all"} \cup allUniqueCategories

SearchInputs == {"", "comp-250", " FAKE-999 "}

ViewCatalogs ==
  { <<CourseRecord(cA, <<LogicalOperator("AND", <<CourseRef(cB), CourseRef(cC)>>)>>,
                   <<CourseRef(cB)>>),
      CourseRecord(cB, <<CourseRef(cC)>>, <<>>),
      CourseRecord(cC, <<>>, <<>>)>>,
    <<CourseRecord(cA, <<>>, <<>>),
      CourseRecord(cB, <<CourseRef(cA)>>, <<>>),
      CourseRecord(cC, <<NOfList(2, <<CourseRef(cA), CourseRef(cZ)>>),
                         Textual("permission")>>, <<CourseRef(cA)>>)>> }

ViewPrograms ==
  { <<ProgramRecord("Honours", <<cA>>), ProgramRecord("Minor", <<cB, cC>>)>> }

InitView ==
  /\ coursesData \in ViewCatalogs
  /\ programsData \in ViewPrograms
  /\ programSelect = ""
  /\ allNodesDataSet = <<>>
  /\ allEdgesDataSet = <<>>
  /\ lastIdCounter = IdCounterInit
  /\ firstBuild = <<>>
  /\ history = <<>>
  /\ programCourseCodes = <<>>
  /\ queue = <<>>
  /\ head = 0
  /\ relevantCodes = <<>>
  /\ pc = "ready"
  /\ displayList = <<>>
  /\ ViewInit
  /\ Loaded

NextView ==
  \/ \E name \in ProgramOptions : handleProgramChange(name)
  \/ \E id \in NodeIds(allNodesDataSet) \cup {""} : handleNetworkClick(id)
  \/ \E category \in CategoryOptions : handleCategoryFilterChange(category)
  \/ \E input \in SearchInputs : handleSearch(input)

SpecView == InitView /\ [][NextView]_vars

\* course codes that are no node of the current graph
AbsentIds == RefCodes \ NodeIds(allNodesDataSet)

\* the click handler called with any ID, also one the graph does not hold
NextAnyClick ==
  \/ NextView
  \/ \E id \in AbsentIds : handleNetworkClick(id)

SpecAnyClick == InitView /\ [][NextAnyClick]_vars

-----------------------------------------------------------------------------
(* The data load: fetchData and initApp *)

\* how a fetch can settle: a response with ok set and a JSON body ("ok"), one
\* with ok set and a body that is no JSON ("badBody"), one with ok not set
\* ("notOk"), or a rejected promise ("rejected")
Settlements == {"ok", "badBody", "notOk", "rejected"}

\* the arrays the course file can hold
ServedCatalogs == ViewCatalogs \cup {<<>>}

\* the arrays the program file can hold
ServedPrograms == ViewPrograms \cup {<<>>}

\* line 134: fetch(COURSES_JSON_PATH) settles
CoursesFetchSettles(r) ==
  /\ coursesResponse = "pending"
  /\ coursesResponse' = r
  /\ UNCHANGED <<coursesData, programsData, uiVars, bfsVars, displayList,
                 viewVars, programsResponse, errorShown, network>>

\* line 135: fetch(PROGRAMS_JSON_PATH) settles
ProgramsFetchSettles(r) ==
  /\ programsResponse = "pending"
  /\ programsResponse' = r
  /\ UNCHANGED <<coursesData, programsData, uiVars, bfsVars, displayList,
                 viewVars, coursesResponse, errorShown, network>>

\* Promise.all: rejected as soon as one promise is, fulfilled when both are
PromiseAllSettled ==
  \/ "rejected" \in {coursesResponse, programsResponse}
  \/ "pending" \notin {coursesResponse, programsResponse}

\* lines 132-184: fetchData from the point where Promise.all has settled; the
\* catch block writes the error message into graphContainer
fetchData ==
  /\ pc = "fetching"
  /\ PromiseAllSettled
  /\ pc' = "fetched"
  /\ IF \/ "rejected" \in {coursesResponse, programsResponse}
        \/ "notOk" \in {coursesResponse, programsResponse}
        \/ coursesResponse = "badBody"
     THEN /\ errorShown' = TRUE
          /\ UNCHANGED <<coursesData, programsData>>
     ELSE /\ coursesData' \in ServedCatalogs
          /\ IF programsResponse = "badBody"
             THEN /\ errorShown' = TRUE
                  /\ UNCHANGED programsData
             ELSE /\ programsData' \in ServedPrograms
                  /\ UNCHANGED errorShown
  /\ UNCHANGED <<uiVars, programCourseCodes, queue, head, relevantCodes,
                 displayList, viewVars, coursesResponse, programsResponse,
                 network>>

\* a test that goes on when at least one of the arrays has elements
DataLoaded_either(courses, programs) == Len(courses) > 0 \/ Len(programs) > 0

\* line 1375: coursesData.length > 0 && programsData.length > 0
DataLoaded(courses, programs) == Len(courses) > 0 /\ Len(programs) > 0

\* lines 1373-1382: initApp after await fetchData(); initializeNetworkShell
\* creates the network and registers the handlers
initApp ==
  /\ pc = "fetched"
  /\ IF DataLoaded(coursesData, programsData)
     THEN /\ network' = TRUE
          /\ pc' = "ready"
     ELSE /\ pc' = "aborted"
          /\ UNCHANGED network
  /\ UNCHANGED <<coursesData, programsData, uiVars, programCourseCodes, queue,
                 head, relevantCodes, displayList, viewVars, coursesResponse,
                 programsResponse, errorShown>>

InitLoad ==
  /\ coursesData = <<>>
  /\ programsData = <<>>
  /\ programSelect = ""
  /\ allNodesDataSet = <<>>
  /\ allEdgesDataSet = <<>>
  /\ lastIdCounter = IdCounterInit
  /\ firstBuild = <<>>
  /\ history = <<>>
  /\ programCourseCodes = <<>>
  /\ queue = <<>>
  /\ head = 0
  /\ relevantCodes = <<>>
  /\ pc = "fetching"
  /\ displayList = <<>>
  /\ ViewInit
  /\ coursesResponse = "pending"
  /\ programsResponse = "pending"
  /\ errorShown = FALSE
  /\ network = FALSE

NextLoad ==
  \/ \E r \in Settlements : CoursesFetchSettles(r)
  \/ \E r \in Settlements : ProgramsFetchSettles(r)
  \/ fetchData
  \/ initApp
  \/ \E name \in ProgramOptions : handleProgramChange(name)

SpecLoad == InitLoad /\ [][NextLoad]_vars

-----------------------------------------------------------------------------
(* The handlers of js/main.js: single-node highlighting, opacity-only       *)
(* category dimming                                                         *)

\* main.js line 138: dimOpacity = 0.2, in hundredths
dimOpacity == 20

\* main.js line 953: isConnected ? 1 : 0.2, in hundredths
CLICK_DIM_OPACITY == 20

\* main.js lines 325-334
facultyMap ==
  [prefix \in {"ANAT", "BIOL", "CHEM", "NEUR", "NSCI", "PHGY", "PSYC", "PSYT"} |->
     "Neuroscience"]

\* main.js lines 323-336: facultyMap[prefix] || prefix
main_extractGroup(courseCode) ==
  IF Prefix(courseCode) \in DOMAIN facultyMap THEN facultyMap[Prefix(courseCode)]
  ELSE Prefix(courseCode)

\* node.group as the builder of main.js sets it
main_Group(node) ==
  IF node.group \in {"AndNode", "OrNode", "TextualNode", "NOfListNode"}
  THEN node.group ELSE main_extractGroup(node.id)

\* a click opacity that also dims what the category filter leaves out
main_ClickOpacity_filtered(node, clickedNodeId) ==
  IF /\ categoryFilterSelect # "all"
     /\ main_Group(node) # categoryFilterSelect
  THEN CLICK_DIM_OPACITY
  ELSE IF clickedNodeId = "" THEN FULL_OPACITY
  ELSE IF node.id \in {clickedNodeId} \cup getConnectedNodes(clickedNodeId)
  THEN FULL_OPACITY ELSE CLICK_DIM_OPACITY

\* main.js lines 941-961: the opacity a click writes to a node
main_ClickOpacity(node, clickedNodeId) ==
  IF clickedNodeId = "" THEN FULL_OPACITY
  ELSE IF node.id \in {clickedNodeId} \cup getConnectedNodes(clickedNodeId)
  THEN FULL_OPACITY ELSE CLICK_DIM_OPACITY

\* main.js lines 909-931: the colour a click writes to an edge
main_ClickEdgeColor(edge, clickedNodeId) ==
  IF clickedNodeId # "" /\ (edge.from = clickedNodeId \/ edge.to = clickedNodeId)
  THEN IF edge.baseColorType = "prereq"
       THEN HIGHLIGHT_PREREQ_COLOR ELSE HIGHLIGHT_COREQ_COLOR
  ELSE IF edge.baseColorType = "prereq" THEN DIM_PREREQ_COLOR ELSE DIM_COREQ_COLOR

\* main.js lines 900-966; clickedNodeId is params.nodes[0], or "" for none
main_handleNetworkClick(clickedNodeId) ==
  /\ pc = "ready"
  /\ handled < MaxEvents
  /\ sidebar' = IF clickedNodeId # "" /\ HasCourse(clickedNodeId)
                THEN updateSidebar(FindCourse(clickedNodeId))
                ELSE sidebar
  /\ allEdgesDataSet' =
       [j \in DOMAIN allEdgesDataSet |->
          [allEdgesDataSet[j] EXCEPT
             !.color = main_ClickEdgeColor(allEdgesDataSet[j], clickedNodeId)]]
  /\ nodeStyle' =
       IF allNodesDataSet = <<>> THEN nodeStyle
       ELSE [id \in NodeIds(allNodesDataSet) |->
               [opacity |-> main_ClickOpacity(NodeById(id), clickedNodeId)]]
  /\ outcome' = "ok"
  /\ lastEvent' = [kind |-> IF clickedNodeId # "" THEN "click" ELSE "background",
                   arg |-> clickedNodeId,
                   prev |-> lastEvent.kind]
  /\ handled' = handled + 1
  /\ clickedSince' = IF clickedNodeId # "" THEN clickedSince \cup {clickedNodeId}
                     ELSE {}
  /\ UNCHANGED <<loadVars, coursesData, programsData, programSelect, allNodesDataSet,
                 lastIdCounter, firstBuild, history, bfsVars, displayList,
                 selectedForHighlighting_NodeIds, categoryFilterSelect,
                 focusRequest>>

\* main.js lines 135-165: opacity 1 or dimOpacity by the node's group
main_handleCategoryFilterChange(selectedCategory) ==
  /\ pc = "ready"
  /\ handled < MaxEvents
  /\ categoryFilterSelect' = selectedCategory
  /\ nodeStyle' =
       IF allNodesDataSet = <<>> THEN nodeStyle
       ELSE [id \in NodeIds(allNodesDataSet) |->
               [opacity |->
                  IF selectedCategory = "all"
                     \/ main_Group(NodeById(id)) = selectedCategory
                  THEN FULL_OPACITY ELSE dimOpacity]]
  /\ outcome' = "ok"
  /\ lastEvent' = [kind |-> "category", arg |-> "", prev |-> lastEvent.kind]
  /\ handled' = handled + 1
  /\ UNCHANGED <<loadVars, coursesData, programsData, uiVars, bfsVars, displayList,
                 selectedForHighlighting_NodeIds, sidebar, focusRequest,
                 clickedSince>>

\* the categories the filter of main.js can offer for the catalog
main_CategoryOptions ==
  {"all"} \cup {main_extractGroup(coursesData[i].code) : i \in DOMAIN coursesData}

NextMain ==
  \/ \E name \in ProgramOptions : handleProgramChange(name)
  \/ \E id \in NodeIds(allNodesDataSet) \cup {""} : main_handleNetworkClick(id)
  \/ \E category \in main_CategoryOptions : main_handleCategoryFilterChange(category)
  \/ \E input \in SearchInputs : handleSearch(input)

SpecMain == InitView /\ [][NextMain]_vars

-----------------------------------------------------------------------------
(* The closure resolver run step by step *)

BfsStart ==
  /\ pc = "idle"
  /\ LET b == BfsInit(coursesData, programCourseCodes)
     IN /\ queue' = b.queue
        /\ head' = b.head
        /\ relevantCodes' = b.relevantCodes
  /\ pc' = "loop"
  /\ UNCHANGED <<loadVars, coursesData, programsData, uiVars, programCourseCodes, displayList,
                 viewVars>>

BfsStep ==
  /\ pc = "loop"
  /\ head < Len(queue)
  /\ LET b == BfsIter(coursesData, [queue |-> queue, head |-> head, relevantCodes |-> relevantCodes])
     IN /\ queue' = b.queue
        /\ head' = b.head
        /\ relevantCodes' = b.relevantCodes
  /\ UNCHANGED <<loadVars, coursesData, programsData, uiVars, programCourseCodes, pc, displayList,
                 viewVars>>

BfsReturn ==
  /\ pc = "loop"
  /\ head >= Len(queue)
  /\ pc' = "done"
  /\ UNCHANGED <<loadVars, coursesData, programsData, uiVars, programCourseCodes, queue,
                 head, relevantCodes, displayList, viewVars>>

InitClosure ==
  /\ coursesData \in Catalogs
  /\ programsData = <<>>
  /\ programSelect = ""
  /\ allNodesDataSet = <<>>
  /\ allEdgesDataSet = <<>>
  /\ lastIdCounter = IdCounterInit
  /\ firstBuild = <<>>
  /\ history = <<>>
  /\ programCourseCodes \in SeedLists
  /\ queue = <<>>
  /\ head = 0
  /\ relevantCodes = <<>>
  /\ pc = "idle"
  /\ displayList = <<>>
  /\ ViewInit
  /\ Loaded

NextClosure == BfsStart \/ BfsStep \/ BfsReturn

SpecClosure == InitClosure /\ [][NextClosure]_vars

\* catalogs with and without cycles, for the termination run
TerminationCatalogs ==
  {<<CourseRecord(cA, pa, ca), CourseRecord(cB, pb, <<>>), CourseRecord(cC, pcc, <<>>)>> :
     pa \in {<<>>, <<CourseRef(cA)>>, <<CourseRef(cB), CourseRef(cB)>>,
             <<LogicalOperator("AND", <<CourseRef(cB), CourseRef(cC)>>)>>,
             <<NOfList(1, <<CourseRef(cB), CourseRef(cC)>>)>>,
             <<CourseRef(cZ)>>},
     ca \in {<<>>, <<CourseRef(cB)>>},
     pb \in PrereqChoicesB, pcc \in PrereqChoicesC}

InitTermination ==
  /\ coursesData \in TerminationCatalogs
  /\ programsData = <<>>
  /\ programSelect = ""
  /\ allNodesDataSet = <<>>
  /\ allEdgesDataSet = <<>>
  /\ lastIdCounter = IdCounterInit
  /\ firstBuild = <<>>
  /\ history = <<>>
  /\ programCourseCodes \in SeedLists
  /\ queue = <<>>
  /\ head = 0
  /\ relevantCodes = <<>>
  /\ pc = "idle"
  /\ displayList = <<>>
  /\ ViewInit
  /\ Loaded

\* the call runs to completion on the single interaction thread
SpecTermination ==
  InitTermination /\ [][NextClosure]_vars /\ WF_vars(NextClosure)

-----------------------------------------------------------------------------
(* Closure resolver: definitions used by the properties *)

\* codes of the CourseRefs at top level or nested only inside LogicalOperators
RECURSIVE RefsThroughLogic(_)
RefsThroughLogic(requirements) ==
  UNION {IF requirements[i].type = "COURSE" THEN {requirements[i].code}
         ELSE IF requirements[i].type = "LOGICAL_OPERATOR"
         THEN RefsThroughLogic(requirements[i].conditions)
         ELSE {} : i \in DOMAIN requirements}

\* codes of all CourseRefs of a tree, whatever they are nested in
RECURSIVE RefsAnywhere(_)
RefsAnywhere(requirements) ==
  UNION {IF requirements[i].type = "COURSE" THEN {requirements[i].code}
         ELSE IF requirements[i].type \in {"LOGICAL_OPERATOR", "N_OF_LIST"}
         THEN RefsAnywhere(requirements[i].conditions)
         ELSE {} : i \in DOMAIN requirements}

DirectDeps(c) ==
  (RefsThroughLogic(FindCourse(c).prerequisites_parsed)
     \cup RefsThroughLogic(FindCourse(c).corequisites_parsed)) \cap CatalogCodes

ResolvableSeeds(codes) == ToSet(codes) \cap CatalogCodes

ClosedSets(codes) ==
  {X \in SUBSET CatalogCodes :
     /\ ResolvableSeeds(codes) \subseteq X
     /\ \A c \in X : DirectDeps(c) \subseteq X}

SmallestClosedSet(codes) ==
  CHOOSE X \in ClosedSets(codes) : \A Y \in ClosedSets(codes) : X \subseteq Y

\* the catalog with every requirement list written in the opposite order
RECURSIVE ReverseReqs(_)
ReverseReqs(requirements) ==
  Reverse([i \in DOMAIN requirements |->
             IF requirements[i].type \in {"LOGICAL_OPERATOR", "N_OF_LIST"}
             THEN [requirements[i] EXCEPT !.conditions = ReverseReqs(@)]
             ELSE requirements[i]])

ReversedCatalog ==
  [i \in DOMAIN coursesData |->
     [coursesData[i] EXCEPT !.prerequisites_parsed = ReverseReqs(@),
                            !.corequisites_parsed = ReverseReqs(@)]]

\* codes referenced by a course of the result only below an N_OF_LIST node
OnlyBelowNOfList(c) ==
  \E i \in DOMAIN coursesData :
     /\ coursesData[i].code \in ToSet(relevantCodes)
     /\ c \in RefsAnywhere(coursesData[i].prerequisites_parsed)
     /\ c \notin RefsThroughLogic(coursesData[i].prerequisites_parsed)

-----------------------------------------------------------------------------
(* C3: the returned set is exactly the smallest set that contains the      *)
(* catalog-resolvable seeds and is closed under catalog-resolvable         *)
(* CourseRefs found at top level or inside LogicalOperator nodes; a course *)
(* referenced only below an NOfList or in a Textual node is not in it.     *)
C3_ExactClosure ==
  pc = "done" => ToSet(relevantCodes) = SmallestClosedSet(programCourseCodes)

\* a finished run that pulled a course in through a LogicalOperator and left
\* out a catalog course that is referenced only below an NOfList
C3_Witness ==
  /\ pc = "done"
  /\ \E c \in CatalogCodes : c \notin ToSet(relevantCodes) /\ OnlyBelowNOfList(c)
  /\ ToSet(relevantCodes) # ResolvableSeeds(programCourseCodes)

(* C4: the returned set contains every seed code that exists in the        *)
(* catalog.                                                                *)
C4_SeedsIncluded ==
  pc = "done" =>
     \A i \in DOMAIN programCourseCodes :
        HasCourse(programCourseCodes[i]) =>
           programCourseCodes[i] \in ToSet(relevantCodes)

\* a finished run over a seed list with a catalog code that no course of the
\* result requires, next to a code absent from the catalog
C4_Witness ==
  /\ pc = "done"
  /\ \E i, j \in DOMAIN programCourseCodes :
        /\ HasCourse(programCourseCodes[i])
        /\ \A c \in ToSet(relevantCodes) : programCourseCodes[i] \notin DirectDeps(c)
        /\ ~HasCourse(programCourseCodes[j])

(* C5: the returned set does not depend on the order of the seed list nor  *)
(* on the order in which requirement conditions are listed, and a repeated *)
(* call returns the same set.                                              *)
C5_OrderIndependent ==
  pc = "done" =>
     /\ \A p \in Perms(programCourseCodes) :
           ToSet(getRelevantCoursesForProgram(p)) = ToSet(relevantCodes)
     /\ ToSet(RelevantIn(ReversedCatalog, programCourseCodes)) = ToSet(relevantCodes)
     /\ ToSet(getRelevantCoursesForProgram(programCourseCodes)) = ToSet(relevantCodes)

\* a finished run over two different resolvable seeds whose traversal added a
\* course, in a catalog that changes when its condition lists are reversed
C5_Witness ==
  /\ pc = "done"
  /\ Len(programCourseCodes) = 2
  /\ programCourseCodes[1] # programCourseCodes[2]
  /\ \A i \in DOMAIN programCourseCodes : HasCourse(programCourseCodes[i])
  /\ Len(relevantCodes) > 2
  /\ ReversedCatalog # coursesData

(* C6 as stated: each code is enqueued at most once.                       *)
C6_EnqueuedOnce == NoDup(queue)

\* the entries pushed by the traversal, after the initial seed entries
PushedPart ==
  SubSeq(queue, Len(FilterInCatalog(coursesData, programCourseCodes)) + 1, Len(queue))

C6_QueueInv ==
  pc # "idle" =>
     /\ NoDup(PushedPart)
     /\ ToSet(PushedPart) \cap ResolvableSeeds(programCourseCodes) = {}
     /\ Len(relevantCodes) <= Len(coursesData)
     /\ ToSet(queue) = ToSet(relevantCodes)

C6_Grows == ToSet(relevantCodes) \subseteq ToSet(relevantCodes')

(* C6 amended: the traversal terminates, also over cyclic catalogs; the    *)
(* loop pushes a code at most once and never a seed (duplicate seed        *)
(* entries stay in the initial queue), the result set only grows and its   *)
(* size never exceeds the number of catalog courses.                       *)
C6_Terminates ==
  /\ []C6_QueueInv
  /\ [][C6_Grows]_vars
  /\ <>(pc = "done")

\* courses that require each other, or a course that requires itself
HasCycle ==
  \E c, d \in CatalogCodes : c \in DirectDeps(d) /\ d \in DirectDeps(c)

\* a finished run over a cyclic catalog in which the loop pushed a course
C6_Witness ==
  /\ pc = "done"
  /\ HasCycle
  /\ \E c \in ToSet(relevantCodes) : \E d \in DirectDeps(c) : c \in DirectDeps(d)
  /\ PushedPart # <<>>

(* C7: a seed or CourseRef code absent from the catalog never enters the   *)
(* queue or the result, and the result is the closure of the resolvable    *)
(* seeds alone.                                                            *)
C7_DanglingDropped ==
  /\ ToSet(queue) \cup ToSet(relevantCodes) \subseteq CatalogCodes
  /\ pc = "done" =>
        relevantCodes =
           getRelevantCoursesForProgram(FilterInCatalog(coursesData, programCourseCodes))

\* a finished run whose seed list holds an absent code and in which a scanned
\* course refers to an absent code
C7_Witness ==
  /\ pc = "done"
  /\ \E i \in DOMAIN programCourseCodes : ~HasCourse(programCourseCodes[i])
  /\ \E c \in ToSet(relevantCodes) :
        RefsThroughLogic(FindCourse(c).prerequisites_parsed) \ CatalogCodes # {}

-----------------------------------------------------------------------------
(* Graph builder and program change: definitions used by the properties *)

\* the display courses of a list: its codes that the catalog resolves
DisplayedCourses(codes) == ToSet(codes) \cap CatalogCodes

\* every N_OF_LIST node of a requirement tree, one entry per occurrence
RECURSIVE NOfListOccurrences(_)
NOfListOccurrences(requirements) ==
  IF requirements = <<>> THEN <<>>
  ELSE LET r == Head(requirements)
           here == IF r.type = "N_OF_LIST" THEN <<r>> ELSE <<>>
           below == IF r.type \in {"LOGICAL_OPERATOR", "N_OF_LIST"}
                    THEN NOfListOccurrences(r.conditions) ELSE <<>>
       IN here \o below \o NOfListOccurrences(Tail(requirements))

RECURSIVE SumOver(_, _)
SumOver(S, f) ==
  IF S = {} THEN 0
  ELSE LET x == CHOOSE y \in S : TRUE IN f[x] + SumOver(S \ {x}, f)

NOfListCount(codes) ==
  SumOver(DisplayedCourses(codes),
          [c \in DisplayedCourses(codes) |->
             Len(NOfListOccurrences(FindCourse(c).prerequisites_parsed))
               + Len(NOfListOccurrences(FindCourse(c).corequisites_parsed))])

\* a junction node made for an N_OF_LIST requirement (it stores the requirement)
IsNOfListJunction(n) == n.group \in {"OrNode", "NOfListNode"} /\ n.details # <<>>

Requirements(c, type) ==
  IF type = "prereq" THEN FindCourse(c).prerequisites_parsed
  ELSE FindCourse(c).corequisites_parsed

TopLevelRefs(c, type) ==
  {Requirements(c, type)[k].code :
     k \in {j \in DOMAIN Requirements(c, type) : Requirements(c, type)[j].type = "COURSE"}}

HasEdge(from, to, type) ==
  \E j \in DOMAIN allEdgesDataSet :
     /\ allEdgesDataSet[j].from = from
     /\ allEdgesDataSet[j].to = to
     /\ allEdgesDataSet[j].baseColorType = type

(* C1 as stated: after a specific program is selected, every course        *)
(* reachable from the program's course list through catalog-resolvable     *)
(* CourseRefs is a course node of the rendered graph, with its own         *)
(* requirements attached to it.                                            *)
C1_ClosureRendered ==
  (/\ pc = "ready" /\ history # <<>> /\ programSelect \in ProgramNames
   /\ "courses" \in DOMAIN FindProgram(programSelect)) =>
     \A c \in SmallestClosedSet(FindProgram(programSelect).courses) :
        /\ c \in NodeIds(allNodesDataSet)
        /\ \A d \in DirectDeps(c) : \E i \in DOMAIN allEdgesDataSet :
              allEdgesDataSet[i].from = d

(* C2: the rendered node collection and the rendered edge collection hold  *)
(* no two elements with the same ID.                                       *)
C2_UniqueIds ==
  /\ NoDup([i \in DOMAIN allNodesDataSet |-> allNodesDataSet[i].id])
  /\ NoDup([i \in DOMAIN allEdgesDataSet |-> allEdgesDataSet[i].id])

\* a build whose node list held an ID twice, and whose trees name a course
\* twice under one target
C2_Witness ==
  /\ pc = "built"
  /\ Len(generateGraphElements(displayList).nodes) > Len(allNodesDataSet)
  /\ allEdgesDataSet # <<>>

(* C8: a program selected again, also after other programs were shown in   *)
(* between, gets the same node IDs and edge IDs as the first time.         *)
C8_SameIdsOnRebuild ==
  (history # <<>> /\ programSelect \in DOMAIN firstBuild) =>
     /\ NodeIds(allNodesDataSet) = firstBuild[programSelect].nodes
     /\ EdgeIds(allEdgesDataSet) = firstBuild[programSelect].edges

\* a program shown, then another graph with junctions, then the first again
C8_Witness ==
  /\ Len(history) >= 3
  /\ history[Len(history)] = history[Len(history) - 2]
  /\ history[Len(history)] # history[Len(history) - 1]
  /\ \E i \in DOMAIN allNodesDataSet :
        allNodesDataSet[i].group \in {"AndNode", "OrNode", "NOfListNode", "TextualNode"}
  /\ firstBuild[history[Len(history) - 1]].nodes # {}

(* C9 as stated: two builds over the same course codes listed in a         *)
(* different order give the same node IDs and the same edge IDs.           *)
C9_OrderIndependentIds ==
  pc = "built" =>
     \A p \in Perms(displayList) :
        /\ NodeIds(displayGraphForCourses(p).nodes) = NodeIds(allNodesDataSet)
        /\ EdgeIds(displayGraphForCourses(p).edges) = EdgeIds(allEdgesDataSet)

(* C10: an N_OF_LIST requirement of a display course becomes an OR         *)
(* junction when its count is exactly 1 and an N-of-list junction carrying *)
(* the count otherwise; the junction has one edge to its target, and each  *)
(* catalog-resolvable course of the list has an edge to the junction, not  *)
(* to the owning course.                                                   *)
C10_NOfListJunctions ==
  pc = "built" =>
     /\ \A i \in DOMAIN allNodesDataSet :
           LET n == allNodesDataSet[i] IN
           IsNOfListJunction(n) =>
              LET r == n.details[1] IN
              /\ r.type = "N_OF_LIST"
              /\ r.count = 1 => n.group = "OrNode" /\ n.label = "OR"
              /\ r.count # 1 =>
                    n.group = "NOfListNode" /\ n.label = ToString(r.count) \o " of:"
              /\ Cardinality({j \in DOMAIN allEdgesDataSet :
                                 allEdgesDataSet[j].from = n.id}) = 1
              /\ \A k \in DOMAIN r.conditions :
                    (r.conditions[k].type = "COURSE" /\ HasCourse(r.conditions[k].code))
                       => \E t \in {"prereq", "coreq"} :
                             HasEdge(r.conditions[k].code, n.id, t)
     /\ Cardinality({i \in DOMAIN allNodesDataSet :
                        IsNOfListJunction(allNodesDataSet[i])})
           = NOfListCount(displayList)
     /\ \A c \in DisplayedCourses(displayList) : \A t \in {"prereq", "coreq"} :
           /\ \A k \in DOMAIN Requirements(c, t) :
                 Requirements(c, t)[k].type = "N_OF_LIST" =>
                    \E i \in DOMAIN allNodesDataSet :
                       /\ IsNOfListJunction(allNodesDataSet[i])
                       /\ allNodesDataSet[i].details[1] = Requirements(c, t)[k]
                       /\ HasEdge(allNodesDataSet[i].id, c, t)
           /\ {d \in CatalogCodes : HasEdge(d, c, t)}
                 = TopLevelRefs(c, t) \cap CatalogCodes

\* a build with a junction for a 1-of list and a junction for a 2-of list
\* whose list names a course of the catalog
C10_Witness ==
  /\ pc = "built"
  /\ \E i, j \in DOMAIN allNodesDataSet :
        /\ IsNOfListJunction(allNodesDataSet[i])
        /\ allNodesDataSet[i].group = "OrNode"
        /\ IsNOfListJunction(allNodesDataSet[j])
        /\ allNodesDataSet[j].label = "2 of:"
        /\ \E k \in DOMAIN allNodesDataSet[j].details[1].conditions :
              /\ allNodesDataSet[j].details[1].conditions[k].type = "COURSE"
              /\ HasCourse(allNodesDataSet[j].details[1].conditions[k].code)

\* every LOGICAL_OPERATOR node of a requirement tree, one entry per occurrence
RECURSIVE LogicalOccurrences(_)
LogicalOccurrences(requirements) ==
  IF requirements = <<>> THEN <<>>
  ELSE LET r == Head(requirements)
           here == IF r.type = "LOGICAL_OPERATOR" THEN <<r>> ELSE <<>>
           below == IF r.type \in {"LOGICAL_OPERATOR", "N_OF_LIST"}
                    THEN LogicalOccurrences(r.conditions) ELSE <<>>
       IN here \o below \o LogicalOccurrences(Tail(requirements))

LogicalCount(codes) ==
  SumOver(DisplayedCourses(codes),
          [c \in DisplayedCourses(codes) |->
             Len(LogicalOccurrences(FindCourse(c).prerequisites_parsed))
               + Len(LogicalOccurrences(FindCourse(c).corequisites_parsed))])

\* a junction node made for a LOGICAL_OPERATOR requirement
IsLogicJunction(n) == n.group \in {"AndNode", "OrNode"} /\ n.details = <<>>

IsAndOperator(r) == r.operator \in {"AND", "and"}

\* the catalog courses named directly among the conditions of a requirement
ConditionRefs(r) ==
  {r.conditions[k].code :
     k \in {j \in DOMAIN r.conditions :
              r.conditions[j].type = "COURSE" /\ HasCourse(r.conditions[j].code)}}

\* the conditions of a requirement that get a node of their own
OwnNodeConditions(r) ==
  {k \in DOMAIN r.conditions : r.conditions[k].type # "COURSE"}

IncomingEdges(id) == {j \in DOMAIN allEdgesDataSet : allEdgesDataSet[j].to = id}

OutgoingEdges(id) == {j \in DOMAIN allEdgesDataSet : allEdgesDataSet[j].from = id}

\* the catalog of the worked example: A requires AND(B, C), B and C nothing
IsAndExample ==
  /\ FindCourse(cA).prerequisites_parsed
       = <<LogicalOperator("AND", <<CourseRef(cB), CourseRef(cC)>>)>>
  /\ FindCourse(cA).corequisites_parsed = <<>>
  /\ FindCourse(cB).prerequisites_parsed = <<>>
  /\ FindCourse(cC).prerequisites_parsed = <<>>
  /\ displayList = <<cA, cB, cC>>

(* C11: the display list [A, B, C] with A requiring AND(B, C) builds 4      *)
(* nodes (A, B, C, one AND junction) and 3 edges (B -> junction,            *)
(* C -> junction, junction -> A); in every build each LOGICAL_OPERATOR      *)
(* occurrence of a display course gives one junction node of its own with   *)
(* one outgoing edge, and a top-level operator's junction points at the     *)
(* owning course and receives one edge per condition.                       *)
C11_LogicalJunctions ==
  pc = "built" =>
     /\ IsAndExample =>
           /\ Len(allNodesDataSet) = 4
           /\ NodeIds(allNodesDataSet) = {cA, cB, cC, "logic_COMP-202_prereq_AND_1"}
           /\ Len(allEdgesDataSet) = 3
           /\ HasEdge(cB, "logic_COMP-202_prereq_AND_1", "prereq")
           /\ HasEdge(cC, "logic_COMP-202_prereq_AND_1", "prereq")
           /\ HasEdge("logic_COMP-202_prereq_AND_1", cA, "prereq")
     /\ Cardinality({i \in DOMAIN allNodesDataSet :
                        IsLogicJunction(allNodesDataSet[i])})
           = LogicalCount(displayList)
     /\ \A i \in DOMAIN allNodesDataSet :
           IsLogicJunction(allNodesDataSet[i]) =>
              Cardinality(OutgoingEdges(allNodesDataSet[i].id)) = 1
     /\ \A c \in DisplayedCourses(displayList) : \A t \in {"prereq", "coreq"} :
           \A k \in DOMAIN Requirements(c, t) :
              LET r == Requirements(c, t)[k] IN
              r.type = "LOGICAL_OPERATOR" =>
                 \E i \in DOMAIN allNodesDataSet :
                    LET n == allNodesDataSet[i] IN
                    /\ IsLogicJunction(n)
                    /\ n.group = IF IsAndOperator(r) THEN "AndNode" ELSE "OrNode"
                    /\ HasEdge(n.id, c, t)
                    /\ {d \in CatalogCodes : HasEdge(d, n.id, t)} = ConditionRefs(r)
                    /\ Cardinality(IncomingEdges(n.id))
                         = Cardinality(ConditionRefs(r))
                             + Cardinality(OwnNodeConditions(r))

\* the worked example built
C11_Witness ==
  /\ pc = "built"
  /\ IsAndExample
  /\ Len(allNodesDataSet) = 4

SyntheticGroups == {"AndNode", "OrNode", "TextualNode", "NOfListNode"}

\* a node that stands for a course
IsCourseNode(n) == n.group \notin SyntheticGroups

\* every code named by a CourseRef in the trees of a display course
TreeRefs(c) ==
  RefsAnywhere(FindCourse(c).prerequisites_parsed)
    \cup RefsAnywhere(FindCourse(c).corequisites_parsed)

(* C12: a display code or a CourseRef whose code is not in the catalog      *)
(* gives no node and no edge; the other display codes and the sibling       *)
(* conditions are still built; every course node has a catalog code as ID.  *)
C12_DanglingSkipped ==
  pc = "built" =>
     /\ \A i \in DOMAIN allNodesDataSet :
           /\ IsCourseNode(allNodesDataSet[i]) =>
                 allNodesDataSet[i].id \in CatalogCodes
           /\ allNodesDataSet[i].id \notin (RefCodes \ CatalogCodes)
     /\ \A j \in DOMAIN allEdgesDataSet :
           /\ allEdgesDataSet[j].from \notin (RefCodes \ CatalogCodes)
           /\ allEdgesDataSet[j].to \notin (RefCodes \ CatalogCodes)
           /\ allEdgesDataSet[j].from \in NodeIds(allNodesDataSet)
           /\ allEdgesDataSet[j].to \in NodeIds(allNodesDataSet)
     /\ \A c \in DisplayedCourses(displayList) :
           /\ c \in NodeIds(allNodesDataSet)
           /\ \A d \in TreeRefs(c) \cap CatalogCodes :
                 /\ d \in NodeIds(allNodesDataSet)
                 /\ OutgoingEdges(d) # {}

\* a build whose display list names an unknown code before a known one, and
\* where a requirement list names an unknown course next to a known one
C12_Witness ==
  /\ pc = "built"
  /\ Len(displayList) >= 2
  /\ displayList[1] \notin CatalogCodes
  /\ \E c \in DisplayedCourses(displayList) :
        /\ TreeRefs(c) \ CatalogCodes # {}
        /\ TreeRefs(c) \cap CatalogCodes # {}
  /\ allEdgesDataSet # <<>>

-----------------------------------------------------------------------------
(* View state: definitions used by the properties *)

\* joined by an edge, in either direction
Adjacent(a, b) ==
  \E j \in DOMAIN allEdgesDataSet :
     \/ allEdgesDataSet[j].from = a /\ allEdgesDataSet[j].to = b
     \/ allEdgesDataSet[j].from = b /\ allEdgesDataSet[j].to = a

InFilter(n) == categoryFilterSelect = "all" \/ n.group = categoryFilterSelect

FullyDimmed(id) ==
  /\ id \in DOMAIN nodeStyle
  /\ nodeStyle[id].opacity = VERY_DIMMED_OPACITY
  /\ nodeStyle[id].borderWidth = 0

(* C13: after a node click handled while the category filter is F, not      *)
(* "all", every node whose category differs from F is fully dimmed (dim     *)
(* opacity, zero border), also when it is selected or next to a selected    *)
(* node.                                                                    *)
C13_CategoryOverridesSelection ==
  (lastEvent.kind = "click" /\ categoryFilterSelect # "all") =>
     \A i \in DOMAIN allNodesDataSet :
        allNodesDataSet[i].group # categoryFilterSelect =>
           FullyDimmed(allNodesDataSet[i].id)

\* a click on a node outside the filter's category that has a neighbour
\* outside it and a neighbour inside it
C13_Witness ==
  /\ lastEvent.kind = "click"
  /\ categoryFilterSelect # "all"
  /\ \E i, j, k \in DOMAIN allNodesDataSet :
        /\ allNodesDataSet[i].id = lastEvent.arg
        /\ allNodesDataSet[i].group # categoryFilterSelect
        /\ Adjacent(lastEvent.arg, allNodesDataSet[j].id)
        /\ allNodesDataSet[j].group # categoryFilterSelect
        /\ Adjacent(lastEvent.arg, allNodesDataSet[k].id)
        /\ allNodesDataSet[k].group = categoryFilterSelect
        /\ RenderedOpacity(allNodesDataSet[k].id) = FULL_OPACITY

(* C14: after a node click, with the clicks made since the last background  *)
(* click or category change, a node inside the filter's category is at full *)
(* opacity exactly when it is one of the clicked nodes or joined by an edge *)
(* to one of them; every other node inside the category is dimmed.          *)
C14_CumulativeHighlight ==
  lastEvent.kind = "click" =>
     \A i \in DOMAIN allNodesDataSet :
        LET n == allNodesDataSet[i] IN
        InFilter(n) =>
           IF n.id \in clickedSince \/ \E c \in clickedSince : Adjacent(c, n.id)
           THEN RenderedOpacity(n.id) = FULL_OPACITY
           ELSE RenderedOpacity(n.id) = VERY_DIMMED_OPACITY

\* two clicks; a node is lit only through the earlier click, another is dimmed
C14_Witness ==
  /\ lastEvent.kind = "click"
  /\ lastEvent.prev = "click"
  /\ \E a \in clickedSince \ {lastEvent.arg} :
        \E i, j \in DOMAIN allNodesDataSet :
           /\ InFilter(allNodesDataSet[i])
           /\ allNodesDataSet[i].id \notin clickedSince
           /\ Adjacent(a, allNodesDataSet[i].id)
           /\ ~Adjacent(lastEvent.arg, allNodesDataSet[i].id)
           /\ RenderedOpacity(allNodesDataSet[i].id) = FULL_OPACITY
           /\ InFilter(allNodesDataSet[j])
           /\ RenderedOpacity(allNodesDataSet[j].id) = VERY_DIMMED_OPACITY

C15_Step ==
  /\ lastEvent'.kind = "click" =>
        selectedForHighlighting_NodeIds'
           = selectedForHighlighting_NodeIds \cup {lastEvent'.arg}
  /\ lastEvent'.kind \in {"background", "category"} =>
        selectedForHighlighting_NodeIds' = {}
  /\ lastEvent'.kind \in {"program", "search"} =>
        selectedForHighlighting_NodeIds' = selectedForHighlighting_NodeIds

(* C15: a node click adds the clicked ID to the selection and removes none, *)
(* a click on the empty canvas empties it, a category change empties it,    *)
(* and no other event changes it.                                           *)
C15_SelectionTransitions == [][C15_Step]_vars

\* a second node added to a selection that kept the first
C15_Witness ==
  /\ lastEvent.kind = "click"
  /\ lastEvent.prev = "click"
  /\ Cardinality(selectedForHighlighting_NodeIds) >= 2

(* C16: right after a category change to F the selection is empty, and a    *)
(* node is at full opacity exactly when F is "all" or its category is F;    *)
(* every other node is dimmed.                                              *)
C16_FilterChangeRender ==
  lastEvent.kind = "category" =>
     /\ selectedForHighlighting_NodeIds = {}
     /\ \A i \in DOMAIN allNodesDataSet :
           LET n == allNodesDataSet[i] IN
           IF categoryFilterSelect = "all" \/ n.group = categoryFilterSelect
           THEN RenderedOpacity(n.id) = FULL_OPACITY
           ELSE RenderedOpacity(n.id) = VERY_DIMMED_OPACITY

\* a filter change right after a click, with nodes on both sides of the filter
C16_Witness ==
  /\ lastEvent.kind = "category"
  /\ lastEvent.prev = "click"
  /\ categoryFilterSelect # "all"
  /\ \E i, j \in DOMAIN allNodesDataSet :
        /\ RenderedOpacity(allNodesDataSet[i].id) = FULL_OPACITY
        /\ RenderedOpacity(allNodesDataSet[j].id) = VERY_DIMMED_OPACITY

(* C17 as stated: after a program change the selection is empty, so the     *)
(* first node click after it lights only the clicked node and its           *)
(* neighbours.                                                              *)
C17_SelectionClearedByRebuild ==
  /\ lastEvent.kind = "program" => selectedForHighlighting_NodeIds = {}
  /\ (lastEvent.kind = "click" /\ lastEvent.prev = "program") =>
        /\ selectedForHighlighting_NodeIds = {lastEvent.arg}
        /\ \A i \in DOMAIN allNodesDataSet :
              LET n == allNodesDataSet[i] IN
              (InFilter(n) /\ RenderedOpacity(n.id) = FULL_OPACITY) =>
                 (n.id = lastEvent.arg \/ Adjacent(lastEvent.arg, n.id))

(* C18 as stated: right after a program change made while the filter is F,  *)
(* not "all", every node of the new graph whose category differs from F is  *)
(* dimmed and every node of category F is at full opacity.                  *)
C18_RenderPassAfterRebuild ==
  (lastEvent.kind = "program" /\ categoryFilterSelect # "all") =>
     \A i \in DOMAIN allNodesDataSet :
        LET n == allNodesDataSet[i] IN
        IF n.group = categoryFilterSelect
        THEN RenderedOpacity(n.id) = FULL_OPACITY
        ELSE RenderedOpacity(n.id) = VERY_DIMMED_OPACITY

(* C19: whenever the category filter is "all" and the selection is empty,   *)
(* every node of the current graph is at full opacity.                      *)
C19_AllVisibleByDefault ==
  (categoryFilterSelect = "all" /\ selectedForHighlighting_NodeIds = {}) =>
     \A i \in DOMAIN allNodesDataSet :
        RenderedOpacity(allNodesDataSet[i].id) = FULL_OPACITY

\* nodes that a click had dimmed, lit again by a click on the canvas
C19_Witness ==
  /\ categoryFilterSelect = "all"
  /\ selectedForHighlighting_NodeIds = {}
  /\ lastEvent.kind = "background"
  /\ lastEvent.prev = "click"
  /\ Len(allNodesDataSet) >= 3
  /\ DOMAIN nodeStyle = NodeIds(allNodesDataSet)

HighlightColor(e) ==
  IF e.baseColorType = "prereq" THEN HIGHLIGHT_PREREQ_COLOR ELSE HIGHLIGHT_COREQ_COLOR

DimColor(e) ==
  IF e.baseColorType = "prereq" THEN DIM_PREREQ_COLOR ELSE DIM_COREQ_COLOR

(* C20: after a node click or a background click an edge has the highlight  *)
(* colour of its relation exactly when the selection is not empty and the   *)
(* edge starts or ends at a selected node; every other edge has the dim     *)
(* colour of its relation, whatever the category filter is.                 *)
C20_EdgeHighlight ==
  lastEvent.kind \in {"click", "background"} =>
     \A j \in DOMAIN allEdgesDataSet :
        LET e == allEdgesDataSet[j] IN
        IF /\ selectedForHighlighting_NodeIds # {}
           /\ \/ e.from \in selectedForHighlighting_NodeIds
              \/ e.to \in selectedForHighlighting_NodeIds
        THEN e.color = HighlightColor(e)
        ELSE e.color = DimColor(e)

\* under a category filter, a click that lights an edge arriving at the node
\* and a corequisite edge, and leaves another edge dim
C20_Witness ==
  /\ lastEvent.kind = "click"
  /\ categoryFilterSelect # "all"
  /\ \E i, j, k \in DOMAIN allEdgesDataSet :
        /\ allEdgesDataSet[i].to = lastEvent.arg
        /\ allEdgesDataSet[i].color = HIGHLIGHT_PREREQ_COLOR
        /\ allEdgesDataSet[j].color = HIGHLIGHT_COREQ_COLOR
        /\ allEdgesDataSet[k].color \in {DIM_PREREQ_COLOR, DIM_COREQ_COLOR}

(* C21 as stated: in every reachable state each edge has the dim or the     *)
(* highlight colour of its own relation, also after a category change.      *)
C21_RelationColourFamily ==
  \A j \in DOMAIN allEdgesDataSet :
     allEdgesDataSet[j].color
        \in {DimColor(allEdgesDataSet[j]), HighlightColor(allEdgesDataSet[j])}

C22_Step ==
  (lastEvent'.kind = "click" /\ lastEvent'.arg \notin NodeIds(allNodesDataSet)) =>
     /\ UNCHANGED <<selectedForHighlighting_NodeIds, nodeStyle, allEdgesDataSet,
                    sidebar>>
     /\ outcome' = "ok"

(* C22 as stated: a click event whose node ID is not in the current graph   *)
(* changes neither the selection, nor a render attribute of a node or an    *)
(* edge, nor the sidebar, and raises no error.                              *)
C22_AbsentClickNoOp == [][C22_Step]_vars

(* C23: after a program change or "show all" the rendered nodes and edges   *)
(* are exactly the build of the new display list: no node or edge of the    *)
(* previous graph is left, no node carries a render field, and every edge   *)
(* has the dim colour it is built with.                                     *)
C23_RebuiltFromScratch ==
  lastEvent.kind = "program" =>
     LET g == generateGraphElements(CoursesToDisplay(programSelect)) IN
     /\ NodeIds(allNodesDataSet) = NodeIds(g.nodes)
     /\ Len(allNodesDataSet) = Cardinality(NodeIds(g.nodes))
     /\ allEdgesDataSet = g.edges
     /\ DOMAIN nodeStyle = {}
     /\ \A j \in DOMAIN allEdgesDataSet :
           allEdgesDataSet[j].color = DimColor(allEdgesDataSet[j])

\* a rebuild right after a click had dimmed nodes and lit edges, into a graph
\* that is not a superset of the one before
C23_Witness ==
  /\ lastEvent.kind = "program"
  /\ lastEvent.prev = "click"
  /\ Len(history) >= 2
  /\ firstBuild[history[Len(history) - 1]].nodes \ NodeIds(allNodesDataSet) # {}
  /\ firstBuild[history[Len(history) - 1]].nodes \cap NodeIds(allNodesDataSet) # {}
  /\ allEdgesDataSet # <<>>

\* program values that resolve to no course list
EmptySelections ==
  {name \in ProgramOptions \cup {"Unlisted"} : CoursesToDisplay(name) = <<>>}

(* C24: when the selected program is the placeholder, is not found, has no  *)
(* course list or has an empty one, the rendered node and edge collections  *)
(* are both empty after the change and the handler ends without an error.   *)
C24_EmptyDisplaySet ==
  /\ {"", "Unlisted", "Draft"} \subseteq EmptySelections
  /\ \A name \in ProgramNames :
        ("courses" \in DOMAIN FindProgram(name) /\ FindProgram(name).courses = <<>>)
           => name \in EmptySelections
  /\ \A name \in EmptySelections :
        /\ displayGraphForCourses(CoursesToDisplay(name)).nodes = <<>>
        /\ displayGraphForCourses(CoursesToDisplay(name)).edges = <<>>
  /\ (lastEvent.kind = "program" /\ programSelect \in EmptySelections) =>
        /\ allNodesDataSet = <<>>
        /\ allEdgesDataSet = <<>>
        /\ outcome = "ok"

\* a graph with edges replaced by the empty graph of a program without a
\* course list
C24_Witness ==
  /\ lastEvent.kind = "program"
  /\ programSelect = "Draft"
  /\ Len(history) >= 2
  /\ firstBuild[history[Len(history) - 1]].edges # {}
  /\ allNodesDataSet = <<>>

C25_Step ==
  lastEvent'.kind \in {"program", "click", "background", "search"} =>
     categoryFilterSelect' = categoryFilterSelect

(* C25: a program change, a node click, a background click and a search     *)
(* leave the value of the category filter as it was; only a category-filter *)
(* change event changes it.                                                 *)
C25_FilterPreserved == [][C25_Step]_vars

\* a program change made while a category is selected, into a graph with nodes
C25_Witness ==
  /\ lastEvent.kind = "program"
  /\ lastEvent.prev = "category"
  /\ categoryFilterSelect # "all"
  /\ allNodesDataSet # <<>>

\* the code a search input stands for
SearchedCode(input) ==
  CASE input = "comp-250" -> "COMP-250"
    [] input = " FAKE-999 " -> "FAKE-999"
    [] OTHER -> input

C26_Step ==
  (/\ lastEvent'.kind = "search"
   /\ SearchedCode(lastEvent'.arg) # ""
   /\ SearchedCode(lastEvent'.arg) \notin NodeIds(allNodesDataSet)) =>
     /\ outcome' = "alert"
     /\ UNCHANGED <<allNodesDataSet, allEdgesDataSet, nodeStyle,
                    selectedForHighlighting_NodeIds, categoryFilterSelect,
                    sidebar, focusRequest, programSelect>>

(* C26: a search for a code that is no node of the current graph shows a    *)
(* notice and leaves the graph collections, the selection, the category     *)
(* filter, the render attributes and the sidebar as they were.              *)
C26_SearchMiss == [][C26_Step]_vars

\* a catalog course searched for while the graph shown does not hold it, with
\* a selection and a sidebar in place
C26_Witness ==
  /\ lastEvent.kind = "search"
  /\ lastEvent.arg = "comp-250"
  /\ outcome = "alert"
  /\ allNodesDataSet # <<>>
  /\ selectedForHighlighting_NodeIds # {}
  /\ sidebar.visible
  /\ sidebar.course # "COMP-250"

C28_Step ==
  /\ (lastEvent'.kind = "click" /\ lastEvent'.arg \in CatalogCodes) =>
        sidebar' = [visible |-> TRUE, course |-> lastEvent'.arg]
  /\ (lastEvent'.kind = "click" /\ lastEvent'.arg \notin CatalogCodes) =>
        sidebar' = sidebar
  /\ lastEvent'.kind = "background" => sidebar' = sidebar

(* C28: a click on a course node puts that course's record in the sidebar;  *)
(* a click on a junction or textual node or on the background leaves the    *)
(* sidebar as it was, so after clicks the sidebar shows the course node     *)
(* clicked last.                                                            *)
C28_SidebarFollowsClicks == [][C28_Step]_vars

\* a course clicked, then a junction or textual node: the course is still shown
C28_Witness ==
  /\ lastEvent.kind = "click"
  /\ lastEvent.prev = "click"
  /\ lastEvent.arg \notin CatalogCodes
  /\ sidebar.visible
  /\ sidebar.course \in clickedSince

\* what generateGraphElements returned for the list that was displayed
Emitted == generateGraphElements(displayList)

\* the positions at which a node list holds an ID
Occurrences(nodes, id) == {i \in DOMAIN nodes : nodes[i].id = id}

\* the IDs a node list holds more than once
RepeatedIds(nodes) ==
  {id \in NodeIds(nodes) : Cardinality(Occurrences(nodes, id)) > 1}

C30_FirstWriteWins ==
  pc = "built" =>
    \A n \in DOMAIN allNodesDataSet :
      LET occ == Occurrences(Emitted.nodes, allNodesDataSet[n].id)
      IN /\ occ # {}
         /\ \A i \in occ : (\A j \in occ : i <= j) =>
               allNodesDataSet[n] = Emitted.nodes[i]

\* a display course rendered with the attributes of its requirement node, its
\* own node having come later with another title
C30_Witness ==
  /\ pc = "built"
  /\ \E n \in DOMAIN allNodesDataSet :
       /\ allNodesDataSet[n].details # <<>>
       /\ \E k \in DOMAIN displayList : displayList[k] = allNodesDataSet[n].id
       /\ \E j \in DOMAIN Emitted.nodes :
            /\ Emitted.nodes[j].id = allNodesDataSet[n].id
            /\ Emitted.nodes[j].title # allNodesDataSet[n].title

\* a fetch that did not deliver its array
FetchFailed(response) == response \in {"badBody", "notOk", "rejected"}

C27_Gate ==
  /\ (pc = "ready" \/ network) =>
       /\ coursesResponse = "ok"
       /\ programsResponse = "ok"
       /\ ~errorShown
       /\ coursesData # <<>>
       /\ programsData # <<>>
  /\ (FetchFailed(coursesResponse) \/ FetchFailed(programsResponse)) =>
       /\ ~network
       /\ pc # "ready"
       /\ allNodesDataSet = <<>>
       /\ allEdgesDataSet = <<>>
       /\ history = <<>>
       /\ pc # "fetching" => errorShown

C27_Step ==
  /\ coursesResponse # "pending" => coursesResponse' = coursesResponse
  /\ programsResponse # "pending" => programsResponse' = programsResponse
  /\ errorShown => errorShown' /\ ~network'

(* C27: the network shell exists, and programs can be selected, only when   *)
(* both fetches delivered their arrays, whichever settled first; when one   *)
(* of them failed or was rejected the error message is shown once fetchData *)
(* has gone on, the shell is never created, no graph is built, and a fetch  *)
(* that has settled is not started again.                                   *)
C27_LoadGate == []C27_Gate /\ [][C27_Step]_vars

\* the course array arrived but the program file did not parse: initApp has
\* stopped with the message shown and without the shell
C27_Witness ==
  /\ pc = "aborted"
  /\ coursesResponse = "ok"
  /\ coursesData # <<>>
  /\ programsResponse = "badBody"
  /\ errorShown
  /\ ~network

\* the catalog courses a requirement list names directly, not inside a group
DirectlyNamed(requirements) ==
  {requirements[k].code :
     k \in {j \in DOMAIN requirements :
              requirements[j].type = "COURSE" /\ HasCourse(requirements[j].code)}}

\* the edges of the rendered collection that lead from one node to another
\* under one relation
EdgesOfTriple(from, to, type) ==
  {j \in DOMAIN allEdgesDataSet :
     /\ allEdgesDataSet[j].from = from
     /\ allEdgesDataSet[j].to = to
     /\ allEdgesDataSet[j].baseColorType = type}

Relations == {"prereq", "coreq"}

(* C31: the rendered edge collection holds at most one edge for a triple    *)
(* (from, to, relation); a course named directly by a display course, also  *)
(* when named twice, has exactly one edge to it per relation, so a course   *)
(* that is both prerequisite and corequisite has two; and the IDs of the    *)
(* triples over the nodes of the graph are pairwise different.              *)
C31_EdgePerTriple ==
  pc = "built" =>
    /\ \A i, j \in DOMAIN allEdgesDataSet :
         (/\ allEdgesDataSet[i].from = allEdgesDataSet[j].from
          /\ allEdgesDataSet[i].to = allEdgesDataSet[j].to
          /\ allEdgesDataSet[i].baseColorType = allEdgesDataSet[j].baseColorType)
           <=> allEdgesDataSet[i].id = allEdgesDataSet[j].id
    /\ \A i, j \in DOMAIN allEdgesDataSet :
         allEdgesDataSet[i].id = allEdgesDataSet[j].id => i = j
    /\ \A d \in DisplayedCourses(displayList) :
         /\ \A c \in DirectlyNamed(FindCourse(d).prerequisites_parsed) :
              Cardinality(EdgesOfTriple(c, d, "prereq")) = 1
         /\ \A c \in DirectlyNamed(FindCourse(d).corequisites_parsed) :
              Cardinality(EdgesOfTriple(c, d, "coreq")) = 1
    /\ LET ids == NodeIds(allNodesDataSet)
       IN Cardinality({EdgeObject(f, t, r, FALSE).id :
                         f \in ids, t \in ids, r \in Relations})
            = Cardinality(ids) * Cardinality(ids) * Cardinality(Relations)

\* a display course that names one course twice as prerequisite and once as
\* corequisite: two edges between the two nodes
C31_Witness ==
  /\ pc = "built"
  /\ displayList = <<cA>>
  /\ FindCourse(cA).prerequisites_parsed = <<CourseRef(cB), CourseRef(cB)>>
  /\ FindCourse(cA).corequisites_parsed = <<CourseRef(cB)>>
  /\ Len(allEdgesDataSet) = 2

(* C32: a category-filter change ends without an error and with the sidebar *)
(* cleared.                                                                 *)
C32_FilterChangeCompletes ==
  lastEvent.kind = "category" =>
    /\ outcome = "ok"
    /\ ~sidebar.visible

\* the category the lists give a code: the one of its first registration, or
\* the part of the code before the hyphen when no list names it
ListedAt(id) ==
  {k \in DOMAIN CogSciRegistrations : ReplaceSpace(CogSciRegistrations[k][1]) = id}

ExpectedCategory(id) ==
  IF ListedAt(id) = {} THEN Prefix(id)
  ELSE CogSciRegistrations[CHOOSE k \in ListedAt(id) :
                             \A m \in ListedAt(id) : k <= m][2]

(* C33: every course node, on whichever path it was emitted and whether it  *)
(* was kept or dropped, carries the category of its code: the one of the    *)
(* first list that names the code, or the subject prefix when none does.    *)
C33_CategoryOfCode ==
  pc = "built" =>
    /\ \A i \in DOMAIN Emitted.nodes :
         IsCourseNode(Emitted.nodes[i]) =>
           Emitted.nodes[i].group = ExpectedCategory(Emitted.nodes[i].id)
    /\ \A i \in DOMAIN allNodesDataSet :
         IsCourseNode(allNodesDataSet[i]) =>
           allNodesDataSet[i].group = ExpectedCategory(allNodesDataSet[i].id)

\* COMP-250, named by a Core list and by a complementary one, emitted as a
\* requirement and as a display course, next to a course no list names
C33_Witness ==
  /\ pc = "built"
  /\ Cardinality(ListedAt(cB)) = 2
  /\ Cardinality(Occurrences(Emitted.nodes, cB)) = 2
  /\ \E i \in DOMAIN allNodesDataSet :
       /\ allNodesDataSet[i].id = cB
       /\ allNodesDataSet[i].group = "CogSci Program: Core CompSci"
  /\ \E i \in DOMAIN allNodesDataSet :
       /\ allNodesDataSet[i].id = cC
       /\ allNodesDataSet[i].group = "ECSE"

RECURSIVE SyntheticOccurrences(_)
\* how many requirements of a list, at any depth, are no course reference
SyntheticOccurrences(requirements) ==
  IF requirements = <<>> THEN 0
  ELSE LET r == Head(requirements)
           here == IF r.type = "COURSE" THEN 0 ELSE 1
           below == IF r.type \in {"LOGICAL_OPERATOR", "N_OF_LIST"}
                    THEN SyntheticOccurrences(r.conditions) ELSE 0
       IN here + below + SyntheticOccurrences(Tail(requirements))

\* the requirements a course lists directly that get a node of their own
OwnNodeRequirements(c, type) ==
  {k \in DOMAIN Requirements(c, type) : Requirements(c, type)[k].type # "COURSE"}

\* the whole catalog is what "Show All Programs" was asked to show
ShowsAll == pc = "ready" /\ history # <<>> /\ programSelect = "all"

(* C34: after "Show All Programs" every catalog course has a course node,   *)
(* every requirement a catalog course lists has its edge into that course   *)
(* (one per named catalog course and relation, one per junction or textual  *)
(* requirement), and the graph has one synthetic node for every junction    *)
(* and textual requirement of the catalog.                                  *)
C34_ShowAllRendersCatalog ==
  ShowsAll =>
    /\ \A c \in CatalogCodes :
         \E i \in DOMAIN allNodesDataSet :
            allNodesDataSet[i].id = c /\ IsCourseNode(allNodesDataSet[i])
    /\ \A c \in CatalogCodes : \A t \in Relations :
         Cardinality({j \in IncomingEdges(c) : allEdgesDataSet[j].baseColorType = t})
           = Cardinality(TopLevelRefs(c, t) \cap CatalogCodes)
               + Cardinality(OwnNodeRequirements(c, t))
    /\ Cardinality({i \in DOMAIN allNodesDataSet : ~IsCourseNode(allNodesDataSet[i])})
         = SumOver(CatalogCodes,
                   [c \in CatalogCodes |->
                      SyntheticOccurrences(FindCourse(c).prerequisites_parsed)
                        + SyntheticOccurrences(FindCourse(c).corequisites_parsed)])

\* the whole catalog shown, with a junction, while the programs list only a
\* part of the catalog
C34_Witness ==
  /\ ShowsAll
  /\ \E i \in DOMAIN allNodesDataSet : ~IsCourseNode(allNodesDataSet[i])
  /\ \E c \in CatalogCodes :
       \A k \in DOMAIN ListedCourses(programsData) : ListedCourses(programsData)[k] # c

(* C35: in main.js, after a node click a node is drawn at full opacity      *)
(* exactly when it is the clicked node or shares an edge with it, whatever  *)
(* was clicked before and whatever the category filter is; after a          *)
(* background click every node is drawn at full opacity.                    *)
C35_SingleNodeHighlight ==
  /\ lastEvent.kind = "click" =>
       \A i \in DOMAIN allNodesDataSet :
          LET id == allNodesDataSet[i].id IN
          RenderedOpacity(id) = FULL_OPACITY
            <=> (id = lastEvent.arg \/ Adjacent(id, lastEvent.arg))
  /\ lastEvent.kind = "background" =>
       \A i \in DOMAIN allNodesDataSet :
          RenderedOpacity(allNodesDataSet[i].id) = FULL_OPACITY

\* a second click under a category filter: the node clicked first is dimmed
\* and a node outside the filter's category is drawn at full opacity
C35_Witness ==
  /\ lastEvent.kind = "click"
  /\ lastEvent.prev = "click"
  /\ categoryFilterSelect # "all"
  /\ \E id \in clickedSince : RenderedOpacity(id) = CLICK_DIM_OPACITY
  /\ \E i \in DOMAIN allNodesDataSet :
       /\ main_Group(allNodesDataSet[i]) # categoryFilterSelect
       /\ RenderedOpacity(allNodesDataSet[i].id) = FULL_OPACITY

(* C36: the source and the target of every edge of the rendered edge        *)
(* collection are IDs of nodes of the rendered node collection.             *)
C36_NoDanglingEdge ==
  pc = "built" =>
    \A j \in DOMAIN allEdgesDataSet :
      /\ allEdgesDataSet[j].from \in NodeIds(allNodesDataSet)
      /\ allEdgesDataSet[j].to \in NodeIds(allNodesDataSet)

\* a graph with an edge out of a textual node and an edge into a junction,
\* built from a display list with a code the catalog does not hold and from a
\* tree that names such a code
C36_Witness ==
  /\ pc = "built"
  /\ \E k \in DOMAIN displayList : displayList[k] = cZ
  /\ \E c \in DisplayedCourses(displayList) : cZ \in TreeRefs(c)
  /\ \E j \in DOMAIN allEdgesDataSet :
       /\ allEdgesDataSet[j].from \in NodeIds(allNodesDataSet)
       /\ NodeById(allEdgesDataSet[j].from).group = "TextualNode"
  /\ \E j \in DOMAIN allEdgesDataSet :
       /\ allEdgesDataSet[j].to \in NodeIds(allNodesDataSet)
       /\ NodeById(allEdgesDataSet[j].to).group \in {"AndNode", "OrNode", "NOfListNode"}

JunctionGroups == {"AndNode", "OrNode", "NOfListNode"}

\* the synthetic nodes the trees of the displayed courses call for
ExpectedSynthetic(codes) ==
  SumOver(DisplayedCourses(codes),
          [c \in DisplayedCourses(codes) |->
             SyntheticOccurrences(FindCourse(c).prerequisites_parsed)
               + SyntheticOccurrences(FindCourse(c).corequisites_parsed)])

(* C37: every junction and textual node has exactly one outgoing edge, and  *)
(* it leads to a junction or to a course of the display list; a textual     *)
(* node has no incoming edge; and there is one synthetic node for every     *)
(* junction or textual requirement in the trees of the displayed courses,   *)
(* so none stands for two of them.                                          *)
C37_SyntheticNodesOwned ==
  pc = "built" =>
    /\ \A i \in DOMAIN allNodesDataSet :
         LET n == allNodesDataSet[i] IN
         ~IsCourseNode(n) =>
           /\ Cardinality(OutgoingEdges(n.id)) = 1
           /\ \A j \in OutgoingEdges(n.id) :
                LET target == NodeById(allEdgesDataSet[j].to) IN
                \/ target.group \in JunctionGroups
                \/ target.id \in DisplayedCourses(displayList)
           /\ n.group = "TextualNode" => IncomingEdges(n.id) = {}
    /\ Cardinality({i \in DOMAIN allNodesDataSet : ~IsCourseNode(allNodesDataSet[i])})
         = ExpectedSynthetic(displayList)

\* two displayed courses with a junction each, one of them with two groups
\* of the same operator, and a textual node below a junction
C37_Witness ==
  /\ pc = "built"
  /\ Cardinality({NodeById(allEdgesDataSet[j].to).id :
                    j \in {k \in DOMAIN allEdgesDataSet :
                             /\ ~IsCourseNode(NodeById(allEdgesDataSet[k].from))
                             /\ IsCourseNode(NodeById(allEdgesDataSet[k].to))}}) = 2
  /\ \E i, j \in DOMAIN allNodesDataSet :
       /\ i # j
       /\ allNodesDataSet[i].group = "AndNode"
       /\ allNodesDataSet[j].group = "AndNode"
       /\ allNodesDataSet[i].title = allNodesDataSet[j].title
  /\ ExpectedSynthetic(displayList) >= 3

RECURSIVE OwnerOf(_, _)
\* the course node reached from a node along the outgoing edges of the
\* synthetic nodes, within the given number of steps ("" when none is reached)
OwnerOf(id, steps) ==
  IF IsCourseNode(NodeById(id)) THEN id
  ELSE IF steps = 0 \/ OutgoingEdges(id) = {} THEN ""
  ELSE OwnerOf(allEdgesDataSet[CHOOSE j \in OutgoingEdges(id) : TRUE].to, steps - 1)

(* C38: a course node whose code is not in the display list has no incoming *)
(* edge, and every junction and textual node leads, along the edges, to a   *)
(* course of the display list.                                              *)
C38_OnlyDisplayCoursesExpanded ==
  pc = "built" =>
    \A i \in DOMAIN allNodesDataSet :
      LET n == allNodesDataSet[i] IN
      /\ (IsCourseNode(n) /\ n.id \notin DisplayedCourses(displayList)) =>
            IncomingEdges(n.id) = {}
      /\ ~IsCourseNode(n) =>
            OwnerOf(n.id, Len(allNodesDataSet)) \in DisplayedCourses(displayList)

\* a course that is in the graph only as a requirement, has requirements of
\* its own in the catalog and no incoming edge, next to a junction two levels
\* below its display course
C38_Witness ==
  /\ pc = "built"
  /\ \E i \in DOMAIN allNodesDataSet :
       LET n == allNodesDataSet[i] IN
       /\ IsCourseNode(n)
       /\ n.id \notin DisplayedCourses(displayList)
       /\ DirectDeps(n.id) # {}
       /\ IncomingEdges(n.id) = {}
  /\ \E i \in DOMAIN allNodesDataSet :
       LET n == allNodesDataSet[i] IN
       /\ ~IsCourseNode(n)
       /\ \E j \in OutgoingEdges(n.id) : ~IsCourseNode(NodeById(allEdgesDataSet[j].to))

====
